---- MODULE Spec2Model ----
(***************************************************************************)
(* State-machine model of core/backend.py of snappergps-backend:           *)
(* process_snapshots (day partition, ephemeris load, batched acquisition,  *)
(* merge, positioning with carried state, result assembly) and the wired   *)
(* frequency-bias estimator _estimate_intermediate_frequency2.             *)
(*                                                                         *)
(* Timestamps are abstracted to their UTC calendar date (an integer day    *)
(* number); a snapshot is identified by its 0-based index in the input.    *)
(* The external primitives (elevation lookup, acquisition, frequency-bias  *)
(* estimation, positioning) are environment steps: what they return is     *)
(* drawn from small sets, what the core passes to them is logged.          *)
(*                                                                         *)
(* The queue worker web_app/processing/process_queue.py is modelled as two *)
(* instances polling one uploads table (specification SpecQueue): a step   *)
(* is one database statement or call; process_snapshots is one step there. *)
(*                                                                         *)
(* Further specifications follow single parts of web_app/processing: the   *)
(* readiness test of the worker (SpecReady), the completion notifications  *)
(* (SpecNotify), one run of _process_upload (SpecUpload), the thread of    *)
(* email_bot.py (SpecEmail) and the day loop of                            *)
(* maintain_navigation_data.py (SpecMaintain).                             *)
(***************************************************************************)
EXTENDS Integers, Sequences, FiniteSets, TLC

\* ---------------------------------------------------------------- bounds
MaxSnapshots == 2          \* longest timestamp array tried
MaxDate == 2               \* calendar dates are 1..MaxDate
MaxClearLen == 6           \* longest input whose bias samples are all finite
MaxNoisyLen == 3           \* longest input with NaN or infinite bias samples
DriftLen == 101            \* an input whose bias samples never agree
MaxBatchLen == 5           \* longest input of the batching runs
MaxIdleBatches == 3        \* batches followed when the cursor does not advance
MaxUploads == 2            \* rows of the uploads table
MaxNavDate == 1            \* newest date of a navigation file or an upload
MaxRows == 3               \* snapshots of one upload

\* ------------------------------------------------------ program constants
BytesPerSnapshot == 6138
NominalIF == 4092000
NpInf == 1000000           \* numpy.inf, the default max_batch_size
IFNone == 0                \* intermediate_frequency=None
InlierBand == 25
MaxInliers == 5
MaxEstSnapshots == 100

Unbound == 0 - 1          \* a local that has not been assigned yet
NpNaN == 2 * NpInf + 1    \* numpy.nan among the numbers; -NpInf is -numpy.inf
TempSlope == 0 - 12       \* slope [Hz/deg C]

GNSSList == <<"G", "E", "C">>
GNSSSet == {"G", "E", "C"}

\* ---------------------------------------------------------------- helpers
Min(a, b) == IF a < b THEN a ELSE b
Max(a, b) == IF a > b THEN a ELSE b

RECURSIVE SeqSum(_)
SeqSum(s) == IF s = <<>> THEN 0 ELSE Head(s) + SeqSum(Tail(s))

RECURSIVE Insert(_, _)
Insert(x, s) ==
    IF s = <<>> THEN <<x>>
    ELSE IF x <= Head(s) THEN <<x>> \o s ELSE <<Head(s)>> \o Insert(x, Tail(s))

RECURSIVE SortAsc(_)
SortAsc(s) == IF s = <<>> THEN <<>> ELSE Insert(Head(s), SortAsc(Tail(s)))

\* a slice bound i of a sequence of length n as Python reads it: a negative
\* bound counts from the end
SliceBound(i, n) == IF i < 0 THEN Max(i + n, 0) ELSE Min(i, n)
\* Python slice a[lo:hi] of a sequence of length n: number of elements
SliceLen(lo, hi, n) == Max(0, SliceBound(hi, n) - SliceBound(lo, n))

\* n copies of v
RECURSIVE Repeat(_, _)
Repeat(v, n) == IF n <= 0 THEN <<>> ELSE <<v>> \o Repeat(v, n - 1)

\* Python slice seq[lo:hi] (0-based, hi exclusive)
SliceSeq(seq, lo, hi) ==
    SubSeq(seq, SliceBound(lo, Len(seq)) + 1, SliceBound(hi, Len(seq)))

\* numpy.isfinite of a number
IsFinite(x) == x \notin {NpInf, 0 - NpInf, NpNaN}

\* the sub-sequence of GNSSList whose members are in the set s
GnssIn(s) == SelectSeq(GNSSList, LAMBDA g : g \in s)

VARIABLES
    \* arguments of process_snapshots
    snapshots_len,            \* len(snapshots), bytes
    datetime_input,           \* date of every timestamp, in input order
    navigation_data,          \* date -> constellations whose .npy file exists
    intermediate_frequency_in,\* IFNone or the supplied IF [Hz]
    max_batch_size,
    sky,                      \* signal content of the snapshots
    temperature,              \* [given, values]: None or one value per snapshot
    \* locals of process_snapshots
    pc, error,
    n_snapshots_processed, initialize,
    latitude_input, longitude_input, height_input,
    time_error_input, n_failed_input, last_plausible_utc_input,
    frequency_offset,
    intermediate_frequency,   \* per snapshot, as exact rationals minus NominalIF
    day_i,                    \* position of the loop over unique_date_array
    eph_dict,                 \* keys of eph_dict for the current day
    n_snapshots_processed_day,
    snapshot_idx_list, origin_list, batch_size_list, snr_list,
    latitude_output, longitude_output, datetime_output, uncertainty_output,
    \* locals of _estimate_intermediate_frequency2
    est,
    \* module-level state of coarse_time_navigation
    ctn_state,
    \* history of the calls made to the external primitives
    calls, acq_log, pos_log,
    \* the database of the queue worker (process_queue.py)
    status,                   \* uploads.status of every upload
    n_positions,              \* times the position rows of an upload were inserted
    ready,                    \* the upload passes the test of lines 288-291 now
    fails,                    \* _process_upload raises for the upload
    \* the processing instances, each a run of process_queue.py
    wpc,                      \* where the instance is
    waiting_uploads_table,    \* rows of the last SELECT not iterated over yet
    upload_id,                \* the row of the current iteration (0: none)
    restart_wait_time,
    session,                  \* connection, cursor and bots of the instance
    poll,                     \* what the instance did since its last SELECT
    restarts,                 \* what the instance did since its last exception
    \* what the readiness test of the queue worker reads (lines 264-291)
    nav_files,                \* constellation -> dates of its *{gnss}.npy files
    utcnow,                   \* datetime.datetime.utcnow()
    earliest_processing_date, \* column 3 of every uploads row
    \* the completion notifications (push, e-mail, Telegram)
    sent,                     \* the messages that went out: <<upload, channel>>
    email,                    \* uploads.email of every upload
    \* one run of _process_upload (process_queue.py 37-171)
    upload_rows,              \* `rows`: the snapshots rows of the upload, as fetched
    reference_points,         \* the timestamps of the two reference points
    upc,                      \* where the run is
    passed,                   \* arguments handed to process_snapshots
    result_idx,
    positions,                \* the rows inserted into table positions
    \* one EmailBot and its polling thread (email_bot.py)
    mpc,                      \* where the thread is
    keep_running,             \* self.keep_running ("unset": no such attribute)
    stop_returned,            \* stop() has been called and has returned
    bot_cursor,               \* self.cursor
    last_email_sent_datetime,
    mail_table,               \* [fetched, todo]: rows of the last SELECT
    initial_emails,           \* 'data uploaded' e-mails sent per upload
    upload_datetime,          \* column 4 of every uploads row
    \* maintain_navigation_data.py
    mnpc,                     \* where the script is
    record_date,              \* days after today - n_prev_days
    rinex_file,               \* <<content>> of the .rnx file on disk, or <<>>
    yyn_file,                 \* <<content>> of the .YYn file on disk, or <<>>
    npy_files,                \* <<day, gnss>> of the .npy files written
    n_gnss,                   \* result of the first _read_rinex of the day
    tried                     \* the sources tried for the day, in order

args == <<snapshots_len, datetime_input, navigation_data,
          intermediate_frequency_in, max_batch_size, sky, temperature>>
carry == <<latitude_input, longitude_input, height_input,
           time_error_input, n_failed_input, last_plausible_utc_input>>
batchvars == <<n_snapshots_processed_day, snapshot_idx_list, origin_list,
               batch_size_list, snr_list>>
outputs == <<latitude_output, longitude_output, datetime_output,
             uncertainty_output>>
freq == <<frequency_offset, intermediate_frequency>>
database == <<status, n_positions, ready, fails>>
instances == <<wpc, waiting_uploads_table, upload_id, restart_wait_time,
               session, poll, restarts>>
site == <<nav_files, utcnow, earliest_processing_date>>
notifications == <<sent, email>>
upload_run == <<upload_rows, reference_points, upc, passed, result_idx, positions>>
mail_thread == <<mpc, keep_running, stop_returned, bot_cursor,
                 last_email_sent_datetime, mail_table, initial_emails,
                 upload_datetime>>
maintenance == <<mnpc, record_date, rinex_file, yyn_file, npy_files, n_gnss,
                 tried>>
others == <<site, notifications, upload_run, mail_thread, maintenance>>
\* what the steps of one component leave alone
beside_site == <<notifications, upload_run, mail_thread, maintenance>>
beside_notifications == <<site, upload_run, mail_thread, maintenance>>
beside_upload_run == <<site, notifications, mail_thread, maintenance>>
beside_mail_thread == <<site, notifications, upload_run, maintenance>>
beside_maintenance == <<site, notifications, upload_run, mail_thread>>
qvars == <<database, instances, others>>
vars == <<qvars, args, carry, batchvars, outputs, pc, error, n_snapshots_processed,
          initialize, frequency_offset, intermediate_frequency, day_i,
          eph_dict, est, ctn_state, calls, acq_log, pos_log>>

\* ------------------------------------------------------------ input space
Dates == 1..MaxDate
DateArrays == UNION {[1..n -> Dates] : n \in 0..MaxSnapshots}
BufferLengths(n) == {n * BytesPerSnapshot, n * BytesPerSnapshot + 1,
                     (n + 1) * BytesPerSnapshot}
SuppliedIFs == {IFNone, NominalIF + 100}
BatchSizes == {1, 2, NpInf}
SkyPatterns == {"clear", "sparse"}
\* the sets of .npy files tried for one date
EphemerisChoices == {{}, {"G"}, {"E", "C"}, {"G", "E", "C"}}

\* what one call of the positioning primitive may do: the carry-state it
\* leaves in ctn.state, and whether it resolves the snapshots it has
\* detections for
PositioningOutcomes ==
    { [reported |->
          [n_failed |-> 1, latitude |-> "lat_in", longitude |-> "lon_in",
           height |-> "elev", time_error |-> 0,
           last_plausible_utc |-> "none"],
       resolves |-> FALSE],
      [reported |->
          [n_failed |-> 0, latitude |-> "lat1", longitude |-> "lon1",
           height |-> "h1", time_error |-> 1,
           last_plausible_utc |-> "utc1"],
       resolves |-> TRUE] }
CtnReports == {o.reported : o \in PositioningOutcomes}

\* ---------------------------------------------------- day partition (145-159)
date_array == datetime_input
\* numpy.unique(date_array, return_index=True): the index (1-based here) of
\* the first occurrence of every distinct date
FirstIndices ==
    {i \in 1..Len(date_array) :
        \A j \in 1..(i - 1) : date_array[j] # date_array[i]}
RECURSIVE SetToSeq(_)
SetToSeq(set) ==
    IF set = {} THEN <<>>
    ELSE LET x == CHOOSE y \in set : TRUE
         IN <<x>> \o SetToSeq(set \ {x})
\* the indices as numpy.unique returns them: in the order of the dates
unique_date_idx_ByDate ==
    LET first(d) == CHOOSE i \in FirstIndices : date_array[i] = d
        dates == SortAsc(SetToSeq({date_array[i] : i \in FirstIndices}))
    IN [k \in 1..Len(dates) |-> first(dates[k])]
\* numpy.sort(unique_date_idx) (148)
unique_date_idx == SortAsc(SetToSeq(FirstIndices))
\* numpy.unique without the sort of the first-occurrence indices (148): the
\* distinct dates in calendar order
unique_date_array_sorted ==
    SortAsc([k \in 1..Len(unique_date_idx) |-> date_array[unique_date_idx[k]]])
unique_date_array ==
    [k \in 1..Len(unique_date_idx) |-> date_array[unique_date_idx[k]]]
CountDate(date) ==
    Cardinality({i \in 1..Len(date_array) : date_array[i] = date})
n_snapshots == Len(datetime_input)
n_snapshots_day ==
    IF day_i \in 1..Len(unique_date_array)
    THEN CountDate(unique_date_array[day_i]) ELSE 0

\* ------------------------------------------------ navigation data (172-182)
\* an eph_dict that is not emptied at the start of a day (172)
LoadEphemeris_Carried(date) == navigation_data[date] \cup eph_dict
\* the keys of eph_dict after the loop over the three files
LoadEphemeris(date) == navigation_data[date]
\* the numpy.load attempts of one day: every constellation, in this order
LoadAttempts(phase, date) ==
    [k \in 1..Len(GNSSList) |->
        [phase |-> phase, date |-> date, gnss |-> GNSSList[k],
         found |-> GNSSList[k] \in navigation_data[date]]]

\* --------------------------------------------------- size check (86-92)
\* a check that only rejects a buffer that is too short
SizeMismatch_TooShort == n_snapshots * BytesPerSnapshot > snapshots_len
SizeMismatch == n_snapshots * BytesPerSnapshot # snapshots_len

\* ------------------------------------------------ chip decoding (250-264)
\* byte k of the 6138-byte block of snapshot i
ByteAt(i, k) == (41 * i + 97 * k + (IF sky = "clear" THEN 13 ELSE 200)) % 256
\* bits taken most significant first (numpy's default bitorder)
UnpackBits_Big(byte) == [j \in 1..8 |-> (byte \div (2 ^ (8 - j))) % 2]
\* numpy.unpackbits(..., bitorder='little') of one byte
UnpackBits(byte) == [j \in 1..8 |-> (byte \div (2 ^ (j - 1))) % 2]
\* -2 * signals.astype(numpy.int8) + 1
ToChips(bits) == [j \in 1..Len(bits) |-> 1 - 2 * bits[j]]
\* the first 16 chips of the row decoded from snapshot i
DecodeHead(i) ==
    ToChips(UnpackBits(ByteAt(i, 0))) \o ToChips(UnpackBits(ByteAt(i, 1)))
\* the chip matrix made of the snapshots lo .. lo+rows-1: the head of every
\* row and the length of a row
Signals(lo, rows) ==
    [head |-> [r \in 1..rows |-> DecodeHead(lo + r - 1)],
     row_len |-> 8 * BytesPerSnapshot]

\* ------------------------------------------- external: acquisition_simplified
\* number of satellites of constellation g acquired in snapshot i (0-based)
Detected(i, g) ==
    IF sky = "clear" THEN (IF g = "G" THEN 2 ELSE 1)
    ELSE IF g = "G" THEN i % 2 ELSE IF g = "E" THEN (i + 1) % 2 ELSE 0

\* snapshot_idx returned for a chip matrix whose rows are the snapshots
\* lo .. lo+rows-1: local row numbers, one per acquired satellite
RECURSIVE AcquiredIdx(_, _, _, _)
AcquiredIdx(lo, rows, g, j) ==
    IF j >= rows THEN <<>>
    ELSE IF rows - j = 1 THEN Repeat(j, Detected(lo + j, g))
    ELSE AcquiredIdx(lo, (j + rows) \div 2, g, j)
         \o AcquiredIdx(lo, rows, g, (j + rows) \div 2)

\* the snapshot whose chips produced each of these detections
RECURSIVE AcquiredOrigin(_, _, _, _)
AcquiredOrigin(lo, rows, g, j) ==
    IF j >= rows THEN <<>>
    ELSE IF rows - j = 1 THEN Repeat(lo + j, Detected(lo + j, g))
    ELSE AcquiredOrigin(lo, (j + rows) \div 2, g, j)
         \o AcquiredOrigin(lo, rows, g, (j + rows) \div 2)

\* the SNR values the acquisition primitive may report for a detection
SnrValues == <<"12.5", "nan", "+inf", "0.0", "-inf", "-3.0">>
\* SNR of the n-th satellite of constellation g acquired in snapshot i
SnrOf(i, g, n) ==
    SnrValues[((2 * i + n + (IF g = "G" THEN 0 ELSE IF g = "E" THEN 1 ELSE 3))
               % Len(SnrValues)) + 1]

\* snr returned for a chip matrix whose rows are the snapshots lo .. lo+rows-1
RECURSIVE AcquiredSnr(_, _, _, _)
AcquiredSnr(lo, rows, g, j) ==
    IF j >= rows THEN <<>>
    ELSE IF rows - j = 1
    THEN [n \in 1..Detected(lo + j, g) |-> SnrOf(lo + j, g, n)]
    ELSE AcquiredSnr(lo, (j + rows) \div 2, g, j)
         \o AcquiredSnr(lo, rows, g, (j + rows) \div 2)

\* --------------------------------- external: positioning_simplified (375-421)
\* local indices (0-based, into the timestamps passed) that have a detection
DetectedLocal(idx_dict, n_passed) ==
    {k \in 0..(n_passed - 1) :
        \E g \in DOMAIN idx_dict : \E p \in 1..Len(idx_dict[g]) :
            idx_dict[g][p] = k}

\* the snapshots the primitive resolves: a fix needs detections
Resolved(idx_dict, n_passed, resolves) ==
    IF resolves THEN DetectedLocal(idx_dict, n_passed) ELSE {}

\* ---------------------------------------------------------- merge (345-366)
\* an offset that also counts the batch itself
MergeOffset_Inclusive(sizes, batch_idx) == SeqSum(SubSeq(sizes, 1, batch_idx))
\* snapshot_idx_list[batch_idx][gnss] += sum(batch_size_list[:batch_idx])
MergeOffset(sizes, batch_idx) == SeqSum(SubSeq(sizes, 1, batch_idx - 1))

RECURSIVE ConcatShifted(_, _, _, _)
ConcatShifted(lst, sizes, g, b) ==
    IF b > Len(lst) THEN <<>>
    ELSE [p \in 1..Len(lst[b][g]) |-> lst[b][g][p] + MergeOffset(sizes, b)]
         \o ConcatShifted(lst, sizes, g, b + 1)

RECURSIVE ConcatPlain(_, _, _)
ConcatPlain(lst, g, b) ==
    IF b > Len(lst) THEN <<>>
    ELSE lst[b][g] \o ConcatPlain(lst, g, b + 1)

\* numpy.isfinite
IsFiniteSnr(x) == x \notin {"nan", "+inf", "-inf"}
\* a clamp that only looks for NaN
ClampSnr_NanOnly(x) == IF x = "nan" THEN "nextafter(0,1)" ELSE x
\* snr[logical_not(isfinite(snr))] = nextafter(0, 1)   (361-363)
ClampSnr(x) == IF IsFiniteSnr(x) THEN x ELSE "nextafter(0,1)"
MergedSnr(lst, keys) ==
    [g \in keys |->
        LET cat == ConcatPlain(lst, g, 1)
        IN [q \in 1..Len(cat) |-> ClampSnr(cat[q])]]

MergedIdx(lst, sizes, keys) == [g \in keys |-> ConcatShifted(lst, sizes, g, 1)]
MergedOrigin(lst, keys) == [g \in keys |-> ConcatPlain(lst, g, 1)]

\* ------------------------------------------------- carry-state (212-227)
\* a read-back that forgets the height
CarryIn_StaleHeight(state) ==
    [n_failed |-> state.n_failed, latitude |-> state.latitude,
     longitude |-> state.longitude, height |-> height_input,
     time_error |-> state.time_error,
     last_plausible_utc |-> state.last_plausible_utc]
\* the values read back from ctn.state on every day but the first
CarryIn(state) ==
    [n_failed |-> state.n_failed, latitude |-> state.latitude,
     longitude |-> state.longitude, height |-> state.height,
     time_error |-> state.time_error,
     last_plausible_utc |-> state.last_plausible_utc]

\* ------------------------------------- frequency-bias estimator (575-704)
\* numpy.partition: the element at position k of the sorted list
KthSmallest(list, k) ==
    list[CHOOSE p \in 1..Len(list) :
            /\ Cardinality({q \in 1..Len(list) : list[q] < list[p]}) < k
            /\ k <= Cardinality({q \in 1..Len(list) : list[q] <= list[p]})]

\* numpy.median(list): NaN if any element is NaN, else the mean of the two
\* middle elements of the sorted list; a finite median is returned doubled
\* (an integer for integer samples)
Median2(list) ==
    LET n == Len(list)
        a == KthSmallest(list, (n + 1) \div 2)
        b == KthSmallest(list, n \div 2 + 1)
    IN IF \E p \in 1..n : list[p] = NpNaN THEN NpNaN
       ELSE IF IsFinite(a) /\ IsFinite(b) THEN a + b
       ELSE IF a = 0 - NpInf /\ b = NpInf THEN NpNaN
       ELSE IF b = NpInf THEN NpInf ELSE 0 - NpInf

\* list >= median - 25 and list <= median + 25
InlierMask(list) ==
    LET med2 == Median2(list)
    IN [p \in 1..Len(list) |->
           IF med2 = NpNaN THEN FALSE
           ELSE IF ~IsFinite(med2) THEN list[p] = med2
           ELSE /\ IsFinite(list[p])
                /\ 2 * list[p] >= med2 - 2 * InlierBand
                /\ 2 * list[p] <= med2 + 2 * InlierBand]

CountTrue(mask) == Cardinality({p \in 1..Len(mask) : mask[p]})

RECURSIVE MaskedSum(_, _)
MaskedSum(list, mask) ==
    IF list = <<>> THEN 0
    ELSE IF Len(list) = 1 THEN (IF mask[1] THEN list[1] ELSE 0)
    ELSE LET h == Len(list) \div 2
         IN MaskedSum(SubSeq(list, 1, h), SubSeq(mask, 1, h))
            + MaskedSum(SubSeq(list, h + 1, Len(list)),
                        SubSeq(mask, h + 1, Len(list)))

\* numpy.sum of the inliers: an infinite inlier makes it infinite
InlierSum(list, mask) ==
    IF \E p \in 1..Len(list) : mask[p] /\ list[p] = NpInf THEN NpInf
    ELSE IF \E p \in 1..Len(list) : mask[p] /\ list[p] = 0 - NpInf
    THEN 0 - NpInf
    ELSE MaskedSum(list, mask)

\* numpy.mean of `count` values with the given sum, as <<numerator, denominator>>
Mean(sum, count) == IF IsFinite(sum) THEN <<sum, count>> ELSE <<sum, 1>>

\* a pad to five values, however short the input is
PadLength_ToFive(n_inl) == Max(MaxInliers - n_inl, 0)
\* numpy.pad(inliers, (max(min(5, len(date_array)) - n_inliers, 0), 0))
PadLength(n_inl) == Max(Min(MaxInliers, Len(date_array)) - n_inl, 0)

\* the state of the estimator after one more sample e
EstAfterSample(e, s) ==
    LET list == Append(s.frequency_error_list, e)
        mask == InlierMask(list)
        n_inl == CountTrue(mask)
    IN [s EXCEPT !.frequency_error_list = list,
                 !.inliers = mask,
                 !.inliers_bound = TRUE,
                 !.n_inliers = n_inl,
                 !.frequency_error =
                     Mean(InlierSum(list, mask), n_inl + PadLength(n_inl)),
                 !.n_snapshots_processed_day = @ + 1,
                 !.n_snapshots_processed = @ + 1]

\* a loop that goes on after five inliers
EstWhile_NoInlierStop(s, n_day) ==
    /\ s.n_snapshots_processed_day < n_day
    /\ s.n_snapshots_processed < MaxEstSnapshots
\* the condition of the while loop (622-624)
EstWhile(s, n_day) ==
    /\ s.n_snapshots_processed_day < n_day
    /\ s.n_inliers < MaxInliers
    /\ s.n_snapshots_processed < MaxEstSnapshots

\* ------------------------------------------------------------------- Init
NoEst == [day_i |-> 0, n_snapshots_processed |-> 0,
          n_snapshots_processed_day |-> 0, n_inliers |-> 0,
          frequency_error_list |-> <<>>, inliers |-> <<>>,
          inliers_bound |-> FALSE, frequency_error |-> <<0, 1>>]
BiasSamples == {0, 40}
\* what estimate_frequency_bias_minimal_wrapper may return for the sample
\* taken after k earlier ones
BiasSamplesAt(k) ==
    IF sky = "drift" THEN {100 * (k + 1)}
    ELSE IF sky = "noisy" THEN {0, NpNaN, NpInf, 0 - NpInf}
    ELSE BiasSamples
TempNone == [given |-> FALSE, values |-> <<>>]

\* ------------------------------------------ frequency search window (626-628)
\* x + d for an estimate x kept as <<numerator, denominator>>; inf + d is inf
Shifted(x, d) == IF IsFinite(x[1]) THEN <<x[1] + d * x[2], x[2]>> ELSE x
\* a window around the nominal IF, whatever the estimate is
FrequencyBins_Nominal(frequency_error, n_inl) ==
    [lower |-> <<0 - 1300 + 150 * Min(n_inl, 4), 1>>,
     upper |-> <<1300 - 150 * Min(n_inl, 4), 1>>,
     num |-> 53]
\* a window that stays at its first width
FrequencyBins_Wide(frequency_error, n_inl) ==
    [lower |-> Shifted(frequency_error, 0 - 1300),
     upper |-> Shifted(frequency_error, 1300),
     num |-> 53]
\* numpy.linspace(lower, upper, 53): its two ends, relative to the IF given
\* to acquisition, and its length
FrequencyBins(frequency_error, n_inl) ==
    [lower |-> Shifted(frequency_error, 0 - 1300 + 150 * Min(n_inl, 4)),
     upper |-> Shifted(frequency_error, 1300 - 150 * Min(n_inl, 4)),
     num |-> 53]
\* numpy.linspace(-200, 200, 9) of the main loop (326)
MainFrequencyBins == [lower |-> <<0 - 200, 1>>, upper |-> <<200, 1>>, num |-> 9]

\* ----------------------------------- intermediate frequency (115-137, 700-704)
\* a supplied value that is temperature-compensated like an estimated one
SuppliedIFArray_Compensated(f) ==
    [i \in 1..n_snapshots |->
        <<f - NominalIF
            + (IF temperature.given
               THEN TempSlope * (temperature.values[i] - temperature.values[1])
               ELSE 0), 1>>]
\* numpy.ones(n_snapshots) * intermediate_frequency (137)
SuppliedIFArray(f) == [i \in 1..n_snapshots |-> <<f - NominalIF, 1>>]
\* an estimate that is added without the numpy.isfinite test
EstimatedIF_Unchecked(fe) == fe
\* lines 701-703: the estimate is added only if it is finite
EstimatedIF(fe) == IF IsFinite(fe[1]) THEN fe ELSE <<0, 1>>
\* numpy.where(inliers)[0]
UsedIdx(mask) == {p - 1 : p \in {q \in 1..Len(mask) : mask[q]}}
RECURSIVE SumOver(_, _)
SumOver(f, set) ==
    IF set = {} THEN 0
    ELSE LET x == CHOOSE y \in set : TRUE
         IN f[x + 1] + SumOver(f, set \ {x})
\* a reference temperature that is the mean over all snapshots
CompensatedIFArray_MeanOfAll(f, used, temp) ==
    IF temp.given /\ Cardinality(used) > 0
    THEN LET m == Len(temp.values)
             sum == SumOver(temp.values, 0..(Len(temp.values) - 1))
         IN [i \in 1..Len(temp.values) |->
                <<f[1] * m + f[2] * TempSlope * (temp.values[i] * m - sum),
                  f[2] * m>>]
    ELSE [i \in 1..n_snapshots |-> f]
\* lines 128-134: f + slope * (temperature - mean(temperature[used_idx])), or
\* the same f for every snapshot
CompensatedIFArray(f, used, temp) ==
    IF temp.given /\ Cardinality(used) > 0
    THEN LET m == Cardinality(used)
             sum == SumOver(temp.values, used)
         IN [i \in 1..Len(temp.values) |->
                <<f[1] * m + f[2] * TempSlope * (temp.values[i] * m - sum),
                  f[2] * m>>]
    ELSE [i \in 1..n_snapshots |-> f]

\* the readiness test is not followed: `ready` stands for its outcome
NoSite == nav_files = <<>> /\ utcnow = 0 /\ earliest_processing_date = <<>>

\* the notifications are not followed
NoNotifications == sent = {} /\ email = <<>>

\* _process_upload is not followed
NoUploadRun ==
    /\ upload_rows = <<>> /\ reference_points = <<>> /\ upc = "none"
    /\ passed = <<>> /\ result_idx = 0 /\ positions = <<>>

\* maintain_navigation_data.py is not followed
NoMaintenance ==
    /\ mnpc = "none" /\ record_date = 0 /\ rinex_file = <<>>
    /\ yyn_file = <<>> /\ npy_files = {} /\ n_gnss = 0 /\ tried = <<>>

\* no EmailBot has been constructed
NoEmailBot ==
    /\ mpc = "none" /\ keep_running = "unset" /\ stop_returned = FALSE
    /\ bot_cursor = "none" /\ last_email_sent_datetime = 0
    /\ mail_table = <<>> /\ initial_emails = <<>> /\ upload_datetime = <<>>

\* no queue worker: process_snapshots is called directly
NoInstance ==
    /\ status = <<>> /\ n_positions = <<>> /\ ready = <<>> /\ fails = <<>>
    /\ wpc = <<>> /\ waiting_uploads_table = <<>> /\ upload_id = <<>>
    /\ restart_wait_time = <<>> /\ session = <<>> /\ poll = <<>>
    /\ restarts = <<>>
NoWorker ==
    /\ NoInstance /\ NoSite /\ NoNotifications /\ NoUploadRun /\ NoEmailBot
    /\ NoMaintenance

InitLocals ==
    /\ pc = "call" /\ error = "none"
    /\ n_snapshots_processed = 0 /\ initialize = TRUE
    /\ latitude_input = "lat_in" /\ longitude_input = "lon_in"
    /\ height_input = "unbound"
    /\ time_error_input = Unbound /\ n_failed_input = Unbound
    /\ last_plausible_utc_input = "unbound"
    /\ frequency_offset = <<0, 0>>
    /\ intermediate_frequency = <<>>
    /\ day_i = 0 /\ eph_dict = {}
    /\ n_snapshots_processed_day = 0
    /\ snapshot_idx_list = <<>> /\ origin_list = <<>> /\ batch_size_list = <<>>
    /\ snr_list = <<>>
    /\ latitude_output = <<>> /\ longitude_output = <<>>
    /\ datetime_output = <<>> /\ uncertainty_output = <<>>
    /\ est = NoEst
    /\ calls = [elevation |-> 0, load |-> 0, estimator |-> 0, bias |-> 0,
                outputs |-> 0, tried |-> <<>>]
    /\ acq_log = <<>> /\ pos_log = <<>>

Init ==
    /\ datetime_input \in DateArrays
    /\ snapshots_len \in BufferLengths(Len(datetime_input))
    /\ navigation_data \in [Dates -> EphemerisChoices]
    /\ \A d \in Dates :
          (\A i \in 1..Len(datetime_input) : datetime_input[i] # d)
             => navigation_data[d] = {}
    /\ intermediate_frequency_in \in SuppliedIFs
    /\ max_batch_size \in BatchSizes
    /\ sky \in SkyPatterns
    /\ temperature = TempNone
    /\ ctn_state \in CtnReports     \* left by an earlier run in the process
    /\ InitLocals
    /\ NoWorker

\* ---------------------------------------------------------------- actions
AcqEntry(phase, date, g, lo, size, rows) ==
    [phase |-> phase, date |-> date, gnss |-> g, lo |-> lo, size |-> size,
     rows |-> rows,
     signals |-> Signals(lo, rows),
     intermediate_frequency |->
         IF phase = "estimate" THEN <<<<0, 1>>>>
         ELSE SliceSeq(intermediate_frequency, lo, lo + size),
     frequency_bins |->
         IF phase = "estimate"
         THEN FrequencyBins(est.frequency_error, est.n_inliers)
         ELSE MainFrequencyBins,
     n_times |-> SliceLen(lo, lo + size, n_snapshots),
     latitude |-> latitude_input, longitude |-> longitude_input,
     height |-> height_input]

Raise(e) ==
    /\ pc' = "raised"
    /\ error' = e

\* lines 139-143
InitOutputs ==
    /\ latitude_output' = [i \in 1..n_snapshots |-> "nan"]
    /\ longitude_output' = [i \in 1..n_snapshots |-> "nan"]
    /\ datetime_output' = [i \in 1..n_snapshots |-> "input"]
    /\ uncertainty_output' = [i \in 1..n_snapshots |-> "inf"]

\* lines 81-122 and, with a supplied IF, 135-143
Call ==
    /\ pc = "call"
    /\ IF SizeMismatch
       THEN /\ Raise("ValueError: size mismatch")
            /\ UNCHANGED <<height_input, calls, est, freq,
                           outputs, day_i>>
       ELSE /\ height_input' = "elev"
            /\ IF intermediate_frequency_in = IFNone
               THEN /\ pc' = "estimate"
                    /\ est' = [NoEst EXCEPT !.day_i = 1]
                    /\ calls' = [calls EXCEPT !.elevation = @ + 1,
                                              !.estimator = @ + 1]
                    /\ UNCHANGED <<error, freq, outputs, day_i>>
               ELSE /\ frequency_offset' =
                          <<intermediate_frequency_in - NominalIF, 1>>
                    /\ intermediate_frequency' =
                          SuppliedIFArray(intermediate_frequency_in)
                    /\ InitOutputs
                    /\ calls' = [calls EXCEPT !.elevation = @ + 1,
                                              !.outputs = @ + 1]
                    /\ pc' = "day"
                    /\ day_i' = 1
                    /\ UNCHANGED <<error, est>>
    /\ UNCHANGED <<qvars, args, latitude_input, longitude_input, time_error_input,
                   n_failed_input, last_plausible_utc_input, batchvars,
                   n_snapshots_processed, initialize, eph_dict, ctn_state,
                   acq_log, pos_log>>

\* lines 595-620: one iteration of the estimator's loop over the dates, up to
\* the while loop
EstimatorDay ==
    /\ pc = "estimate"
    /\ est.day_i <= Len(unique_date_array)
    /\ LET date == unique_date_array[est.day_i]
           s0 == [est EXCEPT !.n_snapshots_processed_day = 0]
       IN /\ calls' = [calls EXCEPT !.load = @ + 1,
                      !.tried = @ \o LoadAttempts("estimate", date)]
          /\ IF Cardinality(LoadEphemeris(date)) < 1
             THEN \* return intermediate_frequency; the caller unpacks two
                  \* values (116)
                  /\ est' = s0
                  /\ Raise("TypeError: cannot unpack")
             ELSE IF EstWhile(s0, CountDate(date))
             THEN /\ est' = s0
                  /\ pc' = "sample"
                  /\ UNCHANGED error
             ELSE /\ est' = [s0 EXCEPT !.day_i = @ + 1]
                  /\ UNCHANGED <<pc, error>>
    /\ UNCHANGED <<qvars, args, carry, batchvars, outputs, n_snapshots_processed,
                   initialize, freq, day_i, eph_dict, ctn_state,
                   acq_log, pos_log>>

\* lines 622-699: one iteration of the while loop
EstimatorSample ==
    /\ pc = "sample"
    /\ LET date == unique_date_array[est.day_i]
           keys == GnssIn(LoadEphemeris(date))
           lo == est.n_snapshots_processed
           nbytes == SliceLen(lo * BytesPerSnapshot,
                              (lo + 1) * BytesPerSnapshot, snapshots_len)
       IN IF nbytes % BytesPerSnapshot # 0
          THEN /\ Raise("ValueError: reshape")
               /\ UNCHANGED <<est, calls, acq_log>>
          ELSE \E e \in BiasSamplesAt(Len(est.frequency_error_list)) :
               LET s1 == EstAfterSample(e, est)
               IN /\ acq_log' = acq_log \o
                        [k \in 1..Len(keys) |->
                            AcqEntry("estimate", date, keys[k], lo, 1,
                                     nbytes \div BytesPerSnapshot)]
                  /\ calls' = [calls EXCEPT !.bias = @ + 1]
                  /\ IF EstWhile(s1, CountDate(date))
                     THEN est' = s1 /\ UNCHANGED pc
                     ELSE est' = [s1 EXCEPT !.day_i = @ + 1]
                          /\ pc' = "estimate"
                  /\ UNCHANGED error
    /\ UNCHANGED <<qvars, args, carry, batchvars, outputs, n_snapshots_processed,
                   initialize, freq, day_i, eph_dict, ctn_state,
                   pos_log>>

\* lines 700-704, then 116-134 and 139-143 in the caller
EstimatorReturn ==
    /\ pc = "estimate"
    /\ est.day_i > Len(unique_date_array)
    /\ IF ~est.inliers_bound
       THEN \* np.where(inliers): inliers was never assigned
            /\ Raise("UnboundLocalError: inliers")
            /\ UNCHANGED <<freq, outputs, calls, day_i>>
       ELSE /\ frequency_offset' = EstimatedIF(est.frequency_error)
            /\ intermediate_frequency' =
                   CompensatedIFArray(EstimatedIF(est.frequency_error),
                                      UsedIdx(est.inliers), temperature)
            /\ InitOutputs
            /\ calls' = [calls EXCEPT !.outputs = @ + 1]
            /\ pc' = "day"
            /\ day_i' = 1
            /\ UNCHANGED error
    /\ UNCHANGED <<qvars, args, carry, batchvars, n_snapshots_processed, initialize,
                   eph_dict, est, ctn_state, acq_log, pos_log>>

\* a first day that reads whatever ctn.state holds
InitialCarry_FromState ==
    [time_error |-> ctn_state.time_error, n_failed |-> ctn_state.n_failed,
     last_plausible_utc |-> ctn_state.last_plausible_utc,
     latitude |-> latitude_input, longitude |-> longitude_input,
     height |-> height_input]
\* lines 212-219: the values of the first processed day
InitialCarry ==
    [time_error |-> 0, n_failed |-> 0, last_plausible_utc |-> "none",
     latitude |-> latitude_input, longitude |-> longitude_input,
     height |-> height_input]

\* line 206: the cursor after the ephemeris check of a day of n snapshots
AfterEphemerisCheck(cursor, keys, n) ==
    IF Cardinality(keys) < 1 THEN cursor + n ELSE cursor

\* batches of one snapshot, whatever the limit is
BatchSize_Single(remaining, limit) == Min(remaining, 1)
\* lines 242-243
BatchSize(remaining, limit) == Min(remaining, limit)

\* lines 157-237: the head of one iteration of the loop over the dates
DayBegin ==
    /\ pc = "day"
    /\ day_i <= Len(unique_date_array)
    /\ LET date == unique_date_array[day_i]
           c == IF initialize THEN InitialCarry ELSE CarryIn(ctn_state)
       IN /\ eph_dict' = LoadEphemeris(date)
          /\ calls' = [calls EXCEPT !.load = @ + 1,
                      !.tried = @ \o LoadAttempts("main", date)]
          /\ n_snapshots_processed' =
                 AfterEphemerisCheck(n_snapshots_processed,
                                     LoadEphemeris(date), n_snapshots_day)
          /\ initialize' = FALSE
          /\ time_error_input' = c.time_error
          /\ n_failed_input' = c.n_failed
          /\ last_plausible_utc_input' = c.last_plausible_utc
          /\ latitude_input' = c.latitude
          /\ longitude_input' = c.longitude
          /\ height_input' = c.height
    /\ n_snapshots_processed_day' = 0
    /\ snapshot_idx_list' = <<>>
    /\ origin_list' = <<>>
    /\ batch_size_list' = <<>>
    /\ snr_list' = <<>>
    /\ pc' = IF 0 < n_snapshots_day THEN "batch" ELSE "position"
    /\ UNCHANGED <<qvars, args, outputs, error, freq, day_i, est,
                   ctn_state, acq_log, pos_log>>

\* lines 239-340: one iteration of the batch loop
Batch ==
    /\ pc = "batch"
    /\ LET date == unique_date_array[day_i]
           batch_size == BatchSize(n_snapshots_day - n_snapshots_processed_day,
                                   max_batch_size)
           lo == n_snapshots_processed + n_snapshots_processed_day
           nbytes == SliceLen(lo * BytesPerSnapshot,
                              (lo + batch_size) * BytesPerSnapshot,
                              snapshots_len)
           rows == nbytes \div BytesPerSnapshot
           keys == GnssIn(eph_dict)
       IN IF nbytes % BytesPerSnapshot # 0
          THEN /\ Raise("ValueError: reshape")
               /\ UNCHANGED <<batchvars, acq_log>>
          ELSE \* a loop whose cursor does not advance is followed for
               \* MaxIdleBatches iterations
               /\ batch_size <= 0 => Len(batch_size_list) < MaxIdleBatches
               /\ snapshot_idx_list' = Append(snapshot_idx_list,
                      [g \in eph_dict |-> AcquiredIdx(lo, rows, g, 0)])
               /\ origin_list' = Append(origin_list,
                      [g \in eph_dict |-> AcquiredOrigin(lo, rows, g, 0)])
               /\ snr_list' = Append(snr_list,
                      [g \in eph_dict |-> AcquiredSnr(lo, rows, g, 0)])
               /\ batch_size_list' = Append(batch_size_list, batch_size)
               /\ n_snapshots_processed_day' =
                      n_snapshots_processed_day + batch_size
               /\ acq_log' = acq_log \o
                      [k \in 1..Len(keys) |->
                          AcqEntry("main", date, keys[k], lo, batch_size,
                                   rows)]
               /\ pc' = IF n_snapshots_processed_day + batch_size
                            < n_snapshots_day
                        THEN "batch" ELSE "position"
               /\ UNCHANGED error
    /\ UNCHANGED <<qvars, args, carry, outputs, n_snapshots_processed, initialize,
                   freq, day_i, eph_dict, est, ctn_state, calls,
                   pos_log>>

\* the day's slice of an output array after the store (423-435)
Store(out, lo, n_passed, resolved, yes, no) ==
    [i \in 1..Len(out) |->
        IF i - 1 >= lo /\ i - 1 < lo + n_passed
        THEN (IF (i - 1 - lo) \in resolved THEN yes ELSE no)
        ELSE out[i]]

\* lines 345-438: merge, the positioning call, the store and the cursor
Position ==
    /\ pc = "position"
    /\ LET date == unique_date_array[day_i]
           idx == MergedIdx(snapshot_idx_list, batch_size_list, eph_dict)
           org == MergedOrigin(origin_list, eph_dict)
           lo == n_snapshots_processed
           n_passed == SliceLen(lo, lo + n_snapshots_day, n_snapshots)
       IN \E outcome \in PositioningOutcomes :
          LET reported == outcome.reported
              resolved == Resolved(idx, n_passed, outcome.resolves)
          IN /\ ctn_state' = reported
             /\ pos_log' = Append(pos_log,
                    [day_i |-> day_i, date |-> date, lo |-> lo,
                     n_day |-> n_snapshots_day, n_times |-> n_passed,
                     gnss |-> eph_dict, snapshot_idx |-> idx, origin |-> org,
                     batch_idx |-> snapshot_idx_list,
                     batch_sizes |-> batch_size_list,
                     snr |-> MergedSnr(snr_list, eph_dict),
                     batch_snr |-> snr_list,
                     n_acq |-> Len(acq_log),
                     time_error |-> time_error_input,
                     n_failed |-> n_failed_input,
                     last_plausible_utc |-> last_plausible_utc_input,
                     latitude |-> latitude_input,
                     longitude |-> longitude_input,
                     height |-> height_input,
                     reported |-> reported])
             /\ latitude_output' =
                    Store(latitude_output, lo, n_passed, resolved, "fix", "nan")
             /\ longitude_output' =
                    Store(longitude_output, lo, n_passed, resolved, "fix", "nan")
             /\ datetime_output' =
                    Store(datetime_output, lo, n_passed, resolved,
                          "corrected", "input")
             /\ uncertainty_output' =
                    Store(uncertainty_output, lo, n_passed, resolved,
                          "finite", "inf")
    /\ n_snapshots_processed' = n_snapshots_processed + n_snapshots_day
    /\ day_i' = day_i + 1
    /\ pc' = "day"
    /\ UNCHANGED <<qvars, args, carry, batchvars, error, initialize,
                   freq, eph_dict, est, calls, acq_log>>

\* lines 440-441
Return ==
    /\ pc = "day"
    /\ day_i > Len(unique_date_array)
    /\ pc' = "returned"
    /\ UNCHANGED <<qvars, args, carry, batchvars, outputs, error,
                   n_snapshots_processed, initialize, freq, day_i,
                   eph_dict, est, ctn_state, calls, acq_log, pos_log>>

Next ==
    \/ Call
    \/ EstimatorDay
    \/ EstimatorSample
    \/ EstimatorReturn
    \/ DayBegin
    \/ Batch
    \/ Position
    \/ Return

Spec == Init /\ [][Next]_vars

\* ------------------------------ a second run in the same process
\* what the positioning call of another run of process_snapshots leaves in
\* the module-level ctn.state
OtherRunReports ==
    { [n_failed |-> 2, latitude |-> "latB", longitude |-> "lonB",
       height |-> "hB", time_error |-> 7, last_plausible_utc |-> "utcB"] }
\* the other run completes a day between two days of this run
OtherRunPosition ==
    /\ pc = "day"
    /\ day_i \in 2..Len(unique_date_array)
    /\ ctn_state \notin OtherRunReports
    /\ ctn_state' \in OtherRunReports
    /\ UNCHANGED <<qvars, args, carry, batchvars, outputs, pc, error,
                   n_snapshots_processed, initialize, freq, day_i, eph_dict,
                   est, calls, acq_log, pos_log>>
NextTwoRuns == Next \/ OtherRunPosition
SpecTwoRuns == Init /\ [][NextTwoRuns]_vars

\* ------------------------------------ longer inputs for the estimator
\* one or two days, increasing or decreasing, the second day starting at c
EstSplits(n) == IF n <= MaxClearLen THEN 0..n ELSE {n \div 2, n}
EstDateArrays(n) ==
    {[i \in 1..n |-> IF i <= c THEN d[1] ELSE d[2]] :
        c \in EstSplits(n), d \in {<<1, 2>>, <<2, 1>>}}
EstLengths(s) ==
    IF s = "drift" THEN {DriftLen}
    ELSE IF s = "noisy" THEN 0..MaxNoisyLen ELSE 0..MaxClearLen
TemperatureOf(n) ==
    [given |-> TRUE, values |-> [i \in 1..n |-> 20 + ((i * i) % 7)]]

EstInit ==
    /\ sky \in {"clear", "noisy", "drift"}
    /\ datetime_input \in UNION {EstDateArrays(n) : n \in EstLengths(sky)}
    /\ snapshots_len = Len(datetime_input) * BytesPerSnapshot
    /\ navigation_data \in [Dates -> {{}, {"G"}}]
    /\ \A d \in Dates :
          (\A i \in 1..Len(datetime_input) : datetime_input[i] # d)
             => navigation_data[d] = {}
    /\ sky = "drift" => \A i \in 1..Len(datetime_input) :
                            navigation_data[datetime_input[i]] # {}
    /\ intermediate_frequency_in \in SuppliedIFs
    /\ max_batch_size = NpInf
    /\ temperature \in {TempNone, TemperatureOf(Len(datetime_input))}
    /\ ctn_state \in {r \in CtnReports : r.n_failed = 0}
    /\ sky = "drift" =>
          /\ intermediate_frequency_in = IFNone
          /\ temperature = TempNone
    /\ InitLocals
    /\ NoWorker

SpecEst == EstInit /\ [][Next]_vars

\* ------------------------------------------ longer days for the batch loop
\* the values of max_batch_size: what int(arg) of the worker's -b option can
\* be (process_queue.py 213), and the default of process_snapshots
BatchLimits == {0 - 1, 0, 1, 2, 3, NpInf}
BatchInit ==
    /\ sky \in SkyPatterns
    /\ datetime_input \in UNION {EstDateArrays(n) : n \in 0..MaxBatchLen}
    /\ snapshots_len = Len(datetime_input) * BytesPerSnapshot
    /\ navigation_data \in [Dates -> {{}, {"G"}, GNSSSet}]
    /\ \A d \in Dates :
          (\A i \in 1..Len(datetime_input) : datetime_input[i] # d)
             => navigation_data[d] = {}
    /\ intermediate_frequency_in \in SuppliedIFs
    /\ intermediate_frequency_in = IFNone => Len(datetime_input) <= 1
    /\ max_batch_size \in BatchLimits
    /\ temperature = TempNone
    /\ ctn_state \in {r \in CtnReports : r.n_failed = 0}
    /\ InitLocals
    /\ NoWorker

SpecBatch == BatchInit /\ [][Next]_vars

\* ===================================== the queue worker (process_queue.py)
\* Two processing instances share one uploads table. A step of an instance is
\* one database statement or one call with the local computation around it.
\* The specification starts with both instances inside the polling loop
\* (line 245), each with the connection, cursor and bots of its session.
Workers == {1, 2}
Uploads == 1..MaxUploads
backend == <<args, carry, batchvars, outputs, pc, error,
             n_snapshots_processed, initialize, freq, day_i, eph_dict, est,
             ctn_state, calls, acq_log, pos_log>>
\* the Datetime column: the table holds the newest upload first
UploadDatetime(u) == MaxUploads + 1 - u

\* the rows in the order the table holds them
SelectWaiting_Unordered == SetToSeq({u \in Uploads : status[u] = "waiting"})
\* SELECT * FROM uploads WHERE status = 'waiting' ORDER BY Datetime ASC (250)
SelectWaiting ==
    LET rows == {u \in Uploads : status[u] = "waiting"}
        times == SortAsc(SetToSeq({UploadDatetime(u) : u \in rows}))
    IN [k \in 1..Len(times) |->
           CHOOSE u \in rows : UploadDatetime(u) = times[k]]

\* a loop that goes on to the next row after a processed upload
AfterNotification_NoBreak == "for"
\* `break` (323): on to the sleep of line 336
AfterNotification == "sleep"

\* a wait that is not increased
NextRestartWaitTime_Same(t) == t
\* restart_wait_time *= 2.0 (354)
NextRestartWaitTime(t) == 2 * t

\* instance 1 runs the Telegram bot, instance 2 was started with -n (204-211)
run_telegram_bot(w) == w = 1
OpenSession(w) ==
    [conn |-> "open", cursor |-> "open",
     t_bot |-> IF run_telegram_bot(w) THEN "running" ELSE "none",
     e_bot |-> "running", p_bot |-> "created"]
NoPoll == [fetched |-> <<>>, seen |-> <<>>]

\* process_snapshots has not been called
BackendIdle ==
    /\ datetime_input = <<>> /\ snapshots_len = 0
    /\ navigation_data = [d \in Dates |-> {}]
    /\ intermediate_frequency_in = IFNone /\ max_batch_size = 10
    /\ sky = "clear" /\ temperature = TempNone
    /\ ctn_state = CHOOSE r \in CtnReports : r.n_failed = 0
    /\ InitLocals

QueueInit ==
    /\ status = [u \in Uploads |-> "waiting"]
    /\ n_positions = [u \in Uploads |-> 0]
    /\ ready \in [Uploads -> BOOLEAN]
    /\ fails \in [Uploads -> BOOLEAN]
    /\ wpc = [w \in Workers |-> "select"]
    /\ waiting_uploads_table = [w \in Workers |-> <<>>]
    /\ upload_id = [w \in Workers |-> 0]
    /\ restart_wait_time = [w \in Workers |-> 60]         \* line 220
    /\ session = [w \in Workers |-> OpenSession(w)]
    /\ poll = [w \in Workers |-> NoPoll]
    /\ restarts = [w \in Workers |-> <<>>]
    /\ NoSite /\ NoNotifications /\ NoUploadRun /\ NoEmailBot /\ NoMaintenance
    \* process_snapshots is not followed here: `fails` stands for its outcome
    /\ datetime_input = <<>> /\ snapshots_len = 0
    /\ navigation_data = [d \in Dates |-> {}]
    /\ intermediate_frequency_in = IFNone /\ max_batch_size = 10
    /\ sky = "clear" /\ temperature = TempNone
    /\ ctn_state \in {r \in CtnReports : r.n_failed = 0}
    /\ InitLocals

\* lines 250-251
Select(w) ==
    /\ wpc[w] = "select"
    /\ waiting_uploads_table' = [waiting_uploads_table EXCEPT ![w] = SelectWaiting]
    /\ poll' = [poll EXCEPT ![w] = [fetched |-> SelectWaiting, seen |-> <<>>]]
    /\ wpc' = [wpc EXCEPT ![w] = "for"]
    /\ UNCHANGED <<database, upload_id, restart_wait_time, session, restarts,
                   backend, others>>

\* cursor.execute of line 250 raises (the connection was lost)
SelectRaises(w) ==
    /\ wpc[w] = "select"
    /\ wpc' = [wpc EXCEPT ![w] = "except"]
    /\ UNCHANGED <<database, waiting_uploads_table, upload_id,
                   restart_wait_time, session, poll, restarts, backend, others>>

\* lines 254-262: the next row, marked 'processing'
Mark(w) ==
    /\ wpc[w] = "for"
    /\ waiting_uploads_table[w] # <<>>
    /\ LET u == Head(waiting_uploads_table[w])
       IN /\ upload_id' = [upload_id EXCEPT ![w] = u]
          /\ status' = [status EXCEPT ![u] = "processing"]
    /\ waiting_uploads_table' =
           [waiting_uploads_table EXCEPT ![w] = Tail(@)]
    /\ wpc' = [wpc EXCEPT ![w] = "check"]
    /\ UNCHANGED <<n_positions, ready, fails, restart_wait_time, session, poll,
                   restarts, backend, others>>

\* lines 264-304 and 325-329: can the record be processed yet
Check(w) ==
    /\ wpc[w] = "check"
    /\ poll' = [poll EXCEPT ![w].seen =
                   Append(@, [id |-> upload_id[w],
                              ready |-> ready[upload_id[w]]])]
    /\ wpc' = [wpc EXCEPT ![w] =
                  IF ready[upload_id[w]] THEN "process" ELSE "setwaiting"]
    /\ UNCHANGED <<database, waiting_uploads_table, upload_id,
                   restart_wait_time, session, restarts, backend, others>>

\* lines 273-291: no navigation file of some constellation is found; the
\* IndexError is passed over (284-286) and latest_nav_date[gnss] of line 288
\* raises KeyError
CheckRaises(w) ==
    /\ wpc[w] = "check"
    /\ wpc' = [wpc EXCEPT ![w] = "except"]
    /\ UNCHANGED <<database, waiting_uploads_table, upload_id,
                   restart_wait_time, session, poll, restarts, backend, others>>

\* lines 332-333
SetWaiting(w) ==
    /\ wpc[w] = "setwaiting"
    /\ status' = [status EXCEPT ![upload_id[w]] = "waiting"]
    /\ wpc' = [wpc EXCEPT ![w] = "for"]
    /\ UNCHANGED <<n_positions, ready, fails, waiting_uploads_table, upload_id,
                   restart_wait_time, session, poll, restarts, backend, others>>

\* lines 307 and 66-157: _process_upload up to the last INSERT; an exception
\* of process_snapshots leaves it before the first one
ProcessUpload(w) ==
    /\ wpc[w] = "process"
    /\ IF fails[upload_id[w]]
       THEN /\ wpc' = [wpc EXCEPT ![w] = "except"]
            /\ UNCHANGED n_positions
       ELSE /\ n_positions' = [n_positions EXCEPT ![upload_id[w]] = @ + 1]
            /\ wpc' = [wpc EXCEPT ![w] = "complete"]
    /\ UNCHANGED <<status, ready, fails, waiting_uploads_table, upload_id,
                   restart_wait_time, session, poll, restarts, backend, others>>

\* lines 168-171
Complete(w) ==
    /\ wpc[w] = "complete"
    /\ status' = [status EXCEPT ![upload_id[w]] = "complete"]
    /\ wpc' = [wpc EXCEPT ![w] = "notify"]
    /\ UNCHANGED <<n_positions, ready, fails, waiting_uploads_table, upload_id,
                   restart_wait_time, session, poll, restarts, backend, others>>

\* lines 310-323: the three notifications (each swallows its exceptions)
Notify(w) ==
    /\ wpc[w] = "notify"
    /\ wpc' = [wpc EXCEPT ![w] = AfterNotification]
    /\ UNCHANGED <<database, waiting_uploads_table, upload_id,
                   restart_wait_time, session, poll, restarts, backend, others>>

\* lines 336-339, after the `break` or after the last row
Sleep(w) ==
    /\ \/ wpc[w] = "sleep"
       \/ wpc[w] = "for" /\ waiting_uploads_table[w] = <<>>
    /\ restart_wait_time' = [restart_wait_time EXCEPT ![w] = 60]
    /\ wpc' = [wpc EXCEPT ![w] = "select"]
    /\ UNCHANGED <<database, waiting_uploads_table, upload_id, session, poll,
                   restarts, backend, others>>

\* lines 341-354
Except(w) ==
    /\ wpc[w] = "except"
    /\ restarts' = [restarts EXCEPT ![w] =
                       <<"report", <<"sleep", restart_wait_time[w]>>>>]
    /\ restart_wait_time' =
           [restart_wait_time EXCEPT ![w] = NextRestartWaitTime(@)]
    /\ wpc' = [wpc EXCEPT ![w] = "finally"]
    /\ UNCHANGED <<database, waiting_uploads_table, upload_id, session, poll,
                   backend, others>>

\* lines 355-364
Finally(w) ==
    /\ wpc[w] = "finally"
    /\ session' = [session EXCEPT ![w] =
                      [@ EXCEPT !.cursor = "closed", !.conn = "closed",
                                !.t_bot = IF run_telegram_bot(w)
                                          THEN "stopped" ELSE @,
                                !.e_bot = "stopped"]]
    /\ restarts' = [restarts EXCEPT ![w] =
                       @ \o <<"close cursor", "close conn">>
                         \o (IF run_telegram_bot(w)
                             THEN <<"stop t_bot">> ELSE <<>>)
                         \o <<"stop e_bot">>]
    /\ wpc' = [wpc EXCEPT ![w] = "connect"]
    /\ UNCHANGED <<database, waiting_uploads_table, upload_id,
                   restart_wait_time, poll, backend, others>>

\* lines 222-241: the next iteration of the outer loop. EmailBot() is called
\* without the db_connection its constructor requires (email_bot.py 32): the
\* TypeError is raised outside the try of line 243 and ends the instance
Connect(w) ==
    /\ wpc[w] = "connect"
    /\ session' = [session EXCEPT ![w] =
                      [@ EXCEPT !.conn = "open", !.cursor = "open",
                                !.t_bot = IF run_telegram_bot(w)
                                          THEN "running" ELSE @]]
    /\ restarts' = [restarts EXCEPT ![w] =
                       @ \o <<"connect", "TypeError: EmailBot()">>]
    /\ wpc' = [wpc EXCEPT ![w] = "ended"]
    /\ UNCHANGED <<database, waiting_uploads_table, upload_id,
                   restart_wait_time, poll, backend, others>>

\* time passes and navigation data arrives: the test of 288-291 turns true
BecomeReady(u) ==
    /\ ~ready[u]
    /\ status[u] # "complete"
    /\ ready' = [ready EXCEPT ![u] = TRUE]
    /\ UNCHANGED <<status, n_positions, fails, instances, backend, others>>

WorkerStep(w) ==
    \/ Select(w)
    \/ SelectRaises(w)
    \/ Mark(w)
    \/ Check(w)
    \/ CheckRaises(w)
    \/ SetWaiting(w)
    \/ ProcessUpload(w)
    \/ Complete(w)
    \/ Notify(w)
    \/ Sleep(w)
    \/ Except(w)
    \/ Finally(w)
    \/ Connect(w)

NextQueue ==
    \/ \E w \in Workers : WorkerStep(w)
    \/ \E u \in Uploads : BecomeReady(u)

\* every instance that can take a step takes one eventually
SpecQueue ==
    QueueInit /\ [][NextQueue]_vars /\ \A w \in Workers : WF_vars(WorkerStep(w))

\* ============================ the readiness test (process_queue.py 264-304)
\* One instance polls; the navigation files, the clock and the earliest
\* processing date of every row are followed, a date as a day number and a
\* time as hours since day 0.
NavDates == 0..MaxNavDate
Datetime(date, hour) == 24 * date + hour
DateOf(t) == t \div 24
HourOf(t) == t % 24
Times == {Datetime(d, h) : d \in 1..MaxNavDate, h \in {0, 12}}
                \cup {Datetime(MaxNavDate + 1, 0)}
NewestOf(set) == CHOOSE d \in set : \A e \in set : e <= d

\* lines 266-272
LastNavNeededDate(epd) ==
    IF HourOf(epd) = 0 THEN DateOf(epd) ELSE DateOf(epd) - 1

\* lines 273-286: the loop over ['G', 'E', 'C'] inside one try; sorted(...)[-1]
\* of the first constellation without a file raises IndexError, which ends
\* the loop and is passed over: the later constellations get no entry
LatestNavDate(files) ==
    LET missing == {k \in 1..3 : files[GNSSList[k]] = {}}
        stop == IF missing = {} THEN 4
                ELSE CHOOSE k \in missing : \A j \in missing : k <= j
    IN [g \in {GNSSList[k] : k \in 1..(stop - 1)} |-> NewestOf(files[g])]

\* lines 288-291, the operands of `and` evaluated from the left
RECURSIVE NavCovers(_, _, _)
NavCovers(latest_nav_date, last_nav_needed_date, k) ==
    IF k > 3 THEN "yes"
    ELSE IF GNSSList[k] \notin DOMAIN latest_nav_date THEN "KeyError"
    ELSE IF latest_nav_date[GNSSList[k]] >= last_nav_needed_date
         THEN NavCovers(latest_nav_date, last_nav_needed_date, k + 1)
    ELSE "no"
CanBeProcessed(files, epd, now) ==
    LET covered == NavCovers(LatestNavDate(files), LastNavNeededDate(epd), 1)
    IN IF covered = "yes" THEN (IF now > epd THEN "yes" ELSE "no")
       ELSE covered

ReadyInit ==
    /\ status = [u \in Uploads |-> "waiting"]
    /\ n_positions = [u \in Uploads |-> 0]
    /\ ready = [u \in Uploads |-> FALSE]
    /\ fails = [u \in Uploads |-> FALSE]
    /\ wpc = [w \in Workers |-> IF w = 1 THEN "select" ELSE "ended"]
    /\ waiting_uploads_table = [w \in Workers |-> <<>>]
    /\ upload_id = [w \in Workers |-> 0]
    /\ restart_wait_time = [w \in Workers |-> 60]
    /\ session = [w \in Workers |-> OpenSession(w)]
    /\ poll = [w \in Workers |-> NoPoll]
    /\ restarts = [w \in Workers |-> <<>>]
    /\ nav_files \in [GNSSSet -> SUBSET NavDates]
    /\ utcnow = Datetime(1, 0)
    /\ earliest_processing_date \in [Uploads -> Times \ {Datetime(MaxNavDate + 1, 0)}]
    /\ NoNotifications /\ NoUploadRun /\ NoEmailBot /\ NoMaintenance
    /\ BackendIdle

\* lines 264-304 and 325-329 with the files and the clock of this moment
ReadinessTest(w) ==
    /\ wpc[w] = "check"
    /\ LET verdict == CanBeProcessed(nav_files,
                          earliest_processing_date[upload_id[w]], utcnow)
       IN /\ poll' = [poll EXCEPT ![w].seen =
                         IF verdict = "KeyError" THEN @
                         ELSE Append(@, [id |-> upload_id[w],
                                         ready |-> verdict = "yes"])]
          /\ wpc' = [wpc EXCEPT ![w] =
                        CASE verdict = "yes" -> "process"
                          [] verdict = "no" -> "setwaiting"
                          [] OTHER -> "except"]
    /\ UNCHANGED <<database, waiting_uploads_table, upload_id,
                   restart_wait_time, session, restarts, backend, others>>

\* time passes
Tick ==
    /\ utcnow < Datetime(MaxNavDate + 1, 0)
    /\ utcnow' = utcnow + 12
    /\ UNCHANGED <<database, instances, backend, nav_files,
                   earliest_processing_date, beside_site>>

\* maintain_navigation_data.py writes the file of a further day
NewNavigationFile(gnss, date) ==
    /\ date \notin nav_files[gnss]
    /\ \A d \in nav_files[gnss] : d < date
    /\ nav_files' = [nav_files EXCEPT ![gnss] = @ \cup {date}]
    /\ UNCHANGED <<database, instances, backend, utcnow,
                   earliest_processing_date, beside_site>>

ReadyStep(w) ==
    \/ Select(w)
    \/ Mark(w)
    \/ ReadinessTest(w)
    \/ SetWaiting(w)
    \/ ProcessUpload(w)
    \/ Complete(w)
    \/ Notify(w)
    \/ Sleep(w)
    \/ Except(w)
    \/ Finally(w)
    \/ Connect(w)

NextReady ==
    \/ \E w \in Workers : ReadyStep(w)
    \/ Tick
    \/ \E gnss \in GNSSSet : \E date \in NavDates : NewNavigationFile(gnss, date)

SpecReady == ReadyInit /\ [][NextReady]_vars

\* ================= the completion notifications (process_queue.py 310-320)
\* Two instances poll; the three senders are followed one call at a step.
Addresses == {"user@mail", "", "NULL"}

\* what a sender does with the status it has read
MaySend_Always(status_read) == TRUE
\* `if status == 'complete':` (push_notification_bot.py 44, telegram_bot.py
\* 143 and 180)
MaySend(status_read) == status_read = "complete"

\* `if receiver_email is not None and receiver_email != "":` (email_bot.py 86)
HasReceiver(receiver_email) == receiver_email \notin {"NULL", ""}

\* upload 1 is waiting, the other uploads have been processed and notified
\* an UPDATE that is run whatever happened before
AddressAfter_Always(outcome, address) == "NULL"
\* `UPDATE uploads SET email = NULL` (email_bot.py 210-213) is the last
\* statement of the try: it is reached when nothing before it raised
AddressAfter(outcome, address) == IF outcome = "done" THEN "NULL" ELSE address

NotifyInit ==
    /\ status = [u \in Uploads |-> IF u = 1 THEN "waiting" ELSE "complete"]
    /\ n_positions = [u \in Uploads |-> IF u = 1 THEN 0 ELSE 1]
    /\ ready \in {r \in [Uploads -> BOOLEAN] : \A u \in Uploads \ {1} : r[u]}
    /\ fails = [u \in Uploads |-> FALSE]
    /\ wpc = [w \in Workers |-> "select"]
    /\ waiting_uploads_table = [w \in Workers |-> <<>>]
    /\ upload_id = [w \in Workers |-> 0]
    /\ restart_wait_time = [w \in Workers |-> 60]
    /\ session = [w \in Workers |-> OpenSession(w)]
    /\ poll = [w \in Workers |-> NoPoll]
    /\ restarts = [w \in Workers |-> <<>>]
    /\ NoSite
    /\ sent = {}
    /\ email \in {e \in [Uploads -> Addresses] :
                      \A u \in Uploads \ {1} : e[u] = "NULL"}
    /\ NoUploadRun /\ NoEmailBot /\ NoMaintenance
    /\ BackendIdle

\* line 311 and PushNotificationBot.send_msg: the exceptions of the SELECT
\* and of webpush are printed and passed over
PushNotification(w) ==
    /\ wpc[w] = "notify"
    /\ \E outcome \in {"sent", "raised"} :
          sent' = IF outcome = "sent" /\ MaySend(status[upload_id[w]])
                  THEN sent \cup {<<upload_id[w], "push">>}
                  ELSE sent
    /\ wpc' = [wpc EXCEPT ![w] = "final_email"]
    /\ UNCHANGED <<database, waiting_uploads_table, upload_id,
                   restart_wait_time, session, poll, restarts, backend,
                   beside_notifications, email>>

\* line 314 and EmailBot.final_email (166-216): the SELECT, _send_email and
\* the UPDATE inside one try whose exceptions are printed and passed over
FinalEmail(w) ==
    /\ wpc[w] = "final_email"
    /\ \E outcome \in {"select raises", "send raises", "update raises", "done"} :
          LET receiver_email == email[upload_id[w]]
              mailed == outcome \in {"update raises", "done"}
                           /\ HasReceiver(receiver_email)
          IN /\ sent' = IF mailed THEN sent \cup {<<upload_id[w], "email">>}
                        ELSE sent
             /\ email' = [email EXCEPT ![upload_id[w]] =
                                        AddressAfter(outcome, receiver_email)]
    /\ wpc' = [wpc EXCEPT ![w] = "telegram"]
    /\ UNCHANGED <<database, waiting_uploads_table, upload_id,
                   restart_wait_time, session, poll, restarts, backend,
                   beside_notifications>>

\* lines 316-323: TelegramBot.send_msg or send_msg_no_bot, then `break`
TelegramMessage(w) ==
    /\ wpc[w] = "telegram"
    /\ \E outcome \in {"sent", "raised"} :
          sent' = IF outcome = "sent" /\ MaySend(status[upload_id[w]])
                  THEN sent \cup {<<upload_id[w], "telegram">>}
                  ELSE sent
    /\ wpc' = [wpc EXCEPT ![w] = AfterNotification]
    /\ UNCHANGED <<database, waiting_uploads_table, upload_id,
                   restart_wait_time, session, poll, restarts, backend,
                   beside_notifications, email>>

NotifyStep(w) ==
    \/ Select(w)
    \/ Mark(w)
    \/ Check(w)
    \/ SetWaiting(w)
    \/ ProcessUpload(w)
    \/ Complete(w)
    \/ PushNotification(w)
    \/ FinalEmail(w)
    \/ TelegramMessage(w)
    \/ Sleep(w)

NextNotify ==
    \/ \E w \in Workers : NotifyStep(w)
    \/ \E u \in Uploads : BecomeReady(u)

SpecNotify == NotifyInit /\ [][NextNotify]_vars

\* ===================== one run of _process_upload (process_queue.py 37-171)
\* A snapshots row is [snapshot_id, datetime, temperature]; the buffer block
\* of a row is named by its snapshot_id; process_snapshots is one step that
\* returns four arrays with one element per timestamp passed, or raises.
RowTimes == 1..MaxRows
\* the rows of an upload ORDER BY Datetime ASC (82-85); the ids follow no order
RowsOf(times) ==
    [k \in 1..Len(times) |->
        [snapshot_id |-> 100 - k, datetime |-> times[k],
         temperature |-> 20 + k]]
NonDecreasing(times) ==
    \A i \in 1..(Len(times) - 1) : times[i] <= times[i + 1]

\* a window that is open at both ends
InWindow_Open(t, dt_start, dt_end) == t > dt_start /\ t < dt_end
\* np.logical_and(datetime_input >= dt_start, datetime_input <= dt_end) (104-106)
InWindow(t, dt_start, dt_end) == t >= dt_start /\ t <= dt_end
\* np.where(...)[0]: the 1-based indices of the rows used, ascending
UseIdx(rs, dt_start, dt_end) ==
    SortAsc(SetToSeq({i \in 1..Len(rs) :
                         InWindow(rs[i].datetime, dt_start, dt_end)}))

UploadInit ==
    /\ upload_rows \in {RowsOf(times) :
                          times \in {t \in UNION {[1..n -> RowTimes] : n \in 0..MaxRows} :
                                        NonDecreasing(t)}}
    /\ reference_points \in {<<a, b>> : a \in 0..(MaxRows + 1), b \in 0..(MaxRows + 1)}
    /\ reference_points[1] <= reference_points[2]
    /\ upc = "start"
    /\ passed = <<>> /\ result_idx = 0 /\ positions = <<>>
    /\ NoInstance /\ NoSite /\ NoNotifications /\ NoEmailBot /\ NoMaintenance
    /\ BackendIdle

\* lines 75-115 and the keyword arguments of 124-133
PrepareCall ==
    /\ upc = "start"
    /\ LET use_idx == UseIdx(upload_rows, reference_points[1],
                             reference_points[2])
       IN passed' =
              [use_idx |-> use_idx,
               datetime_input |->
                   [k \in 1..Len(use_idx) |-> upload_rows[use_idx[k]].datetime],
               snapshots |->
                   [k \in 1..Len(use_idx) |-> upload_rows[use_idx[k]].snapshot_id],
               temperature |->
                   [k \in 1..Len(upload_rows) |-> upload_rows[k].temperature]]
    /\ upc' = "call"
    /\ UNCHANGED <<upload_rows, reference_points, result_idx, positions,
                   database, instances, backend, beside_upload_run>>

\* lines 122-133: process_snapshots returns or raises
CallBackend ==
    /\ upc = "call"
    /\ \E outcome \in {"returned", "raised"} :
          upc' = IF outcome = "returned" THEN "insert" ELSE "raised"
    /\ result_idx' = 0
    /\ UNCHANGED <<upload_rows, reference_points, passed, positions,
                   database, instances, backend, beside_upload_run>>

\* lines 141-157: the loop over all rows as one step per row of use_idx;
\* element k of an output array is written as <<array, k>>
InsertPosition ==
    /\ upc = "insert"
    /\ result_idx < Len(passed.use_idx)
    /\ LET idx == passed.use_idx[result_idx + 1]
       IN positions' = Append(positions,
              [snapshot_id |-> upload_rows[idx].snapshot_id,
               estimated_lat |-> <<"latitude_output", result_idx>>,
               estimated_lng |-> <<"longitude_output", result_idx>>,
               estimated_time_correction |->
                   <<"datetime_output", result_idx,
                     passed.datetime_input[result_idx + 1]>>,
               estimated_horizontal_error |->
                   <<"uncertainty_output", result_idx>>])
    /\ result_idx' = result_idx + 1
    /\ UNCHANGED <<upload_rows, reference_points, upc, passed,
                   database, instances, backend, beside_upload_run>>

\* lines 168-171, after the last row
FinishUpload ==
    /\ upc = "insert"
    /\ result_idx = Len(passed.use_idx)
    /\ upc' = "returned"
    /\ UNCHANGED <<upload_rows, reference_points, passed, result_idx,
                   positions, database, instances, backend, beside_upload_run>>

NextUpload == PrepareCall \/ CallBackend \/ InsertPosition \/ FinishUpload

SpecUpload == UploadInit /\ [][NextUpload]_vars

\* ============================================ the e-mail bot (email_bot.py)
\* One EmailBot whose constructor has returned: the thread is created and
\* has not run yet. The uploads table changes under it: uploads arrive and
\* the processing instances move them between 'waiting', 'processing' and
\* 'complete'.
\* the rows of a SELECT without ORDER BY, in any order
Orders(set) ==
    {seq \in [1..Cardinality(set) -> set] :
        \A i \in 1..Cardinality(set) : \A j \in 1..Cardinality(set) :
            seq[i] = seq[j] => i = j}

\* `if upload_datetime > self.last_email_sent_datetime:` (email_bot.py 63)
IsNewer(time, last) == time > last

EmailInit ==
    /\ status \in [Uploads -> {"absent", "waiting"}]
    /\ n_positions = [u \in Uploads |-> 0]
    /\ ready = [u \in Uploads |-> FALSE]
    /\ fails = [u \in Uploads |-> FALSE]
    /\ wpc = <<>> /\ waiting_uploads_table = <<>> /\ upload_id = <<>>
    /\ restart_wait_time = <<>> /\ session = <<>> /\ poll = <<>>
    /\ restarts = <<>>
    /\ upload_datetime \in [Uploads -> 1..MaxUploads]
    /\ mpc = "created" /\ keep_running = "unset" /\ stop_returned = FALSE
    /\ bot_cursor = "open"
    /\ last_email_sent_datetime = 0               \* 1970-01-01 (line 34)
    /\ mail_table = [fetched |-> <<>>, todo |-> <<>>]
    /\ initial_emails = [u \in Uploads |-> 0]
    /\ NoSite /\ NoNotifications /\ NoUploadRun /\ NoMaintenance
    /\ BackendIdle

\* lines 43-47: the thread starts to run
ThreadStart ==
    /\ mpc = "created"
    /\ keep_running' = "True"
    /\ mpc' = "while"
    /\ UNCHANGED <<stop_returned, bot_cursor, last_email_sent_datetime,
                   mail_table, initial_emails, upload_datetime,
                   database, instances, backend, beside_mail_thread>>

\* lines 51-56: the loop condition and the SELECT
PollMail ==
    /\ mpc = "while"
    /\ IF keep_running = "True"
       THEN /\ \E fetched \in Orders({u \in Uploads : status[u] = "waiting"}) :
                  mail_table' = [fetched |-> fetched, todo |-> fetched]
            /\ mpc' = "for"
       ELSE /\ mpc' = "finally"
            /\ UNCHANGED mail_table
    /\ UNCHANGED <<keep_running, stop_returned, bot_cursor,
                   last_email_sent_datetime, initial_emails, upload_datetime,
                   database, instances, backend, beside_mail_thread>>

\* lines 59-67: one row
ForRow ==
    /\ mpc = "for"
    /\ mail_table.todo # <<>>
    /\ LET u == Head(mail_table.todo)
       IN IF IsNewer(upload_datetime[u], last_email_sent_datetime)
          THEN /\ initial_emails' = [initial_emails EXCEPT ![u] = @ + 1]
               /\ last_email_sent_datetime' = upload_datetime[u]
          ELSE UNCHANGED <<initial_emails, last_email_sent_datetime>>
    /\ mail_table' = [mail_table EXCEPT !.todo = Tail(@)]
    /\ UNCHANGED <<mpc, keep_running, stop_returned, bot_cursor,
                   upload_datetime,
                   database, instances, backend, beside_mail_thread>>

\* line 70, after the last row
SleepMail ==
    /\ mpc = "for"
    /\ mail_table.todo = <<>>
    /\ mpc' = "while"
    /\ UNCHANGED <<keep_running, stop_returned, bot_cursor,
                   last_email_sent_datetime, mail_table, initial_emails,
                   upload_datetime,
                   database, instances, backend, beside_mail_thread>>

\* lines 77-82
ExitThread ==
    /\ mpc = "finally"
    /\ bot_cursor' = "closed"
    /\ mpc' = "exited"
    /\ UNCHANGED <<keep_running, stop_returned,
                   last_email_sent_datetime, mail_table, initial_emails,
                   upload_datetime,
                   database, instances, backend, beside_mail_thread>>

\* EmailBot.stop (218-220), called by the thread that made the bot
Stop ==
    /\ ~stop_returned
    /\ keep_running' = "False"
    /\ stop_returned' = TRUE
    /\ UNCHANGED <<mpc, bot_cursor, last_email_sent_datetime, mail_table,
                   initial_emails, upload_datetime,
                   database, instances, backend, beside_mail_thread>>

\* the web application inserts an upload, or a processing instance writes
\* its status (process_queue.py 261, 332, 169)
StatusChanges(u) ==
    /\ \E new \in {"waiting", "processing", "complete"} :
          /\ CASE new = "waiting" ->
                    \/ status[u] = "processing"
                    \/ /\ status[u] = "absent"
                       /\ \A v \in Uploads :
                             status[v] # "absent" =>
                                upload_datetime[v] <= upload_datetime[u]
               [] new = "processing" -> status[u] = "waiting"
               [] new = "complete" -> status[u] = "processing"
          /\ status' = [status EXCEPT ![u] = new]
    /\ UNCHANGED <<n_positions, ready, fails, instances, backend, others>>

ThreadStep == ThreadStart \/ PollMail \/ ForRow \/ SleepMail \/ ExitThread

NextEmail ==
    \/ ThreadStep
    \/ Stop
    \/ \E u \in Uploads : StatusChanges(u)

\* the thread is scheduled again and again
SpecEmail == EmailInit /\ [][NextEmail]_vars /\ WF_vars(ThreadStep)

\* ==================== navigation-data maintenance (maintain_navigation_data.py)
\* the days before today that every pass updates (bkg is False)
n_prev_days == 2
\* what an uncompressed .rnx file can hold: preprocess_rinex reads it only
\* if it is structured as expected and holds all GNSS
RinexContents ==
    {[structured |-> TRUE, gnss |-> GNSSSet]}
        \cup {[structured |-> FALSE, gnss |-> g] : g \in SUBSET GNSSSet}
\* what an uncompressed .YYn file can hold
YYnContents == {"GPS", "no GPS"}
\* download_brdc: curl fails and nothing is written, or the archive cannot
\* be uncompressed and the output file is removed, or the file is written
DownloadOutcomes == {"curl fails", "unzip fails", "written"}
download_brdc(on_disk, outcome, content) ==
    IF outcome = "curl fails" THEN on_disk
    ELSE IF outcome = "unzip fails" THEN <<>>
    ELSE <<content>>
\* the downloads to tell apart: the content matters only if it is written
Downloads(contents) ==
    {d \in DownloadOutcomes \X contents :
        d[1] # "written" => d[2] = CHOOSE c \in contents : TRUE}
\* line 328, with every day tried at BKG too
TryBKG_Always(bkg, n) == TRUE
\* line 328
TryBKG(bkg, n) == ~bkg /\ n < 3
\* _read_rinex, lines 184-257: rnx is the .rnx file on disk, yyn the .YYn
\* file on disk after the download of line 246
FastRead(rnx, bkg) == ~bkg /\ rnx # <<>> /\ rnx[1].structured
\* rinexe is called for 'E', 'C' and 'G' (lines 207-238)
Individually(rnx, bkg) == rnx # <<>> /\ ~FastRead(rnx, bkg)
\* the except FileNotFoundError branch of line 241 is entered
TriesYYn(rnx, bkg) ==
    \/ rnx = <<>>
    \/ Individually(rnx, bkg) /\ "G" \notin rnx[1].gnss
_read_rinex(rnx, bkg, yyn) ==
    LET from_rnx == IF FastRead(rnx, bkg) THEN GNSSSet
                    ELSE IF Individually(rnx, bkg) THEN rnx[1].gnss
                    ELSE {}
        n_rnx == IF FastRead(rnx, bkg) THEN 3 ELSE Cardinality(from_rnx)
        from_yyn == TriesYYn(rnx, bkg) /\ yyn = <<"GPS">>
    IN  [n_gnss_valid |-> n_rnx + (IF from_yyn THEN 1 ELSE 0),
         saved |-> from_rnx \cup (IF from_yyn THEN {"G"} ELSE {})]

MaintainInit ==
    /\ mnpc = "download" /\ record_date = 0
    /\ rinex_file = <<>> /\ yyn_file = <<>>
    /\ npy_files = {} /\ n_gnss = 0 /\ tried = <<>>
    /\ NoInstance /\ NoSite /\ NoNotifications /\ NoUploadRun /\ NoEmailBot
    /\ BackendIdle

\* lines 324 and 330
Download(bkg) ==
    /\ mnpc = (IF bkg THEN "download BKG" ELSE "download")
    /\ \E d \in Downloads(RinexContents) :
           rinex_file' = download_brdc(rinex_file, d[1], d[2])
    /\ mnpc' = (IF bkg THEN "read BKG" ELSE "read")
    /\ UNCHANGED <<record_date, yyn_file, npy_files, n_gnss, tried>>
    /\ UNCHANGED <<database, instances, backend, beside_maintenance>>

\* lines 325-326 and 331-332
ReadRinex(bkg) ==
    /\ mnpc = (IF bkg THEN "read BKG" ELSE "read")
    /\ \E d \in Downloads(YYnContents) :
         LET yyn == IF TriesYYn(rinex_file, bkg)
                    THEN download_brdc(yyn_file, d[1], d[2]) ELSE yyn_file
             read == _read_rinex(rinex_file, bkg, yyn)
             source == IF bkg THEN "BKG .rnx" ELSE "NASA .rnx"
         IN  /\ TriesYYn(rinex_file, bkg) \/ d[1] = "curl fails"
             /\ yyn_file' = yyn
             /\ npy_files' =
                    npy_files \cup {<<record_date, g>> : g \in read.saved}
             /\ n_gnss' = (IF bkg THEN n_gnss ELSE read.n_gnss_valid)
             /\ tried' = tried
                    \o <<[source |-> source, rnx |-> rinex_file,
                          returned |-> read.n_gnss_valid]>>
                    \o (IF TriesYYn(rinex_file, bkg)
                        THEN <<[source |-> ".YYn", rnx |-> rinex_file,
                                returned |-> read.n_gnss_valid]>>
                        ELSE <<>>)
             /\ mnpc' = (IF TryBKG(bkg, read.n_gnss_valid)
                         THEN "download BKG" ELSE "clean up")
    /\ UNCHANGED <<record_date, rinex_file>>
    /\ UNCHANGED <<database, instances, backend, beside_maintenance>>

\* line 335
CleanUp ==
    /\ mnpc = "clean up"
    /\ rinex_file' = <<>> /\ yyn_file' = <<>>
    /\ mnpc' = "next day"
    /\ UNCHANGED <<record_date, npy_files, n_gnss, tried>>
    /\ UNCHANGED <<database, instances, backend, beside_maintenance>>

\* line 338 and the test of line 305
NextDay ==
    /\ mnpc = "next day"
    /\ record_date' = record_date + 1
    /\ tried' = <<>> /\ n_gnss' = 0
    /\ mnpc' = (IF record_date + 1 <= n_prev_days THEN "download" ELSE "sleep")
    /\ UNCHANGED <<rinex_file, yyn_file, npy_files>>
    /\ UNCHANGED <<database, instances, backend, beside_maintenance>>

\* line 341 and the next pass of the while True of line 287
SleepMaintain ==
    /\ mnpc = "sleep"
    /\ record_date' = 0
    /\ mnpc' = "download"
    /\ UNCHANGED <<rinex_file, yyn_file, npy_files, n_gnss, tried>>
    /\ UNCHANGED <<database, instances, backend, beside_maintenance>>

NextMaintain ==
    \/ Download(FALSE)
    \/ ReadRinex(FALSE)
    \/ Download(TRUE)
    \/ ReadRinex(TRUE)
    \/ CleanUp
    \/ NextDay
    \/ SleepMaintain

SpecMaintain == MaintainInit /\ [][NextMaintain]_vars

\* ================================================================= claims
BufferOK == n_snapshots * BytesPerSnapshot = snapshots_len
Monotonic ==
    \/ \A i \in 1..(n_snapshots - 1) : date_array[i] <= date_array[i + 1]
    \/ \A i \in 1..(n_snapshots - 1) : date_array[i] >= date_array[i + 1]
HasEphemeris(date) == navigation_data[date] # {}
AllDaysHaveEphemeris ==
    \A i \in 1..n_snapshots : HasEphemeris(date_array[i])
\* number of snapshots of the first k days of unique_date_array
RECURSIVE SnapshotsBefore(_)
SnapshotsBefore(k) ==
    IF k <= 1 THEN 0
    ELSE SnapshotsBefore(k - 1) + CountDate(unique_date_array[k - 1])
NoCallYet ==
    /\ calls.elevation = 0 /\ calls.load = 0 /\ calls.estimator = 0
    /\ calls.bias = 0 /\ calls.outputs = 0
    /\ acq_log = <<>> /\ pos_log = <<>>

\* C1: a call with len(snapshots) # 6138 * len(datetime_input) raises the
\* size-mismatch error as its first step: no elevation lookup, no ephemeris
\* load, no frequency estimation, no acquisition or positioning call has
\* happened and no output array exists, and nothing of that happens later.
C1_SizeMismatchRaisesFirst ==
    n_snapshots * BytesPerSnapshot # snapshots_len =>
        /\ pc \in {"call", "raised"}
        /\ pc = "raised" => error = "ValueError: size mismatch"
        /\ NoCallYet
        /\ height_input = "unbound"
        /\ latitude_output = <<>> /\ longitude_output = <<>>
        /\ datetime_output = <<>> /\ uncertainty_output = <<>>
C1_Witness ==
    /\ n_snapshots * BytesPerSnapshot < snapshots_len
    /\ n_snapshots > 0
    /\ pc = "raised"

\* C2: every call ends with the size-mismatch error or with a normal return
\* of four arrays of len(datetime_input) elements and a frequency_offset.
C2_TwoOutcomes ==
    /\ pc = "raised" => error = "ValueError: size mismatch"
    /\ pc = "returned" =>
          /\ Len(latitude_output) = n_snapshots
          /\ Len(longitude_output) = n_snapshots
          /\ Len(datetime_output) = n_snapshots
          /\ Len(uncertainty_output) = n_snapshots
          /\ frequency_offset[2] # 0

\* C3: the cursor n_snapshots_processed advances by exactly the day's
\* snapshot count for every day: at the head of and inside the iteration of
\* a day it equals the number of snapshots of all earlier days, it never
\* exceeds len(datetime_input) and it equals len(datetime_input) at return.
C3_CursorAdvancesByDayCount ==
    /\ n_snapshots_processed <= n_snapshots
    /\ pc = "day" => n_snapshots_processed = SnapshotsBefore(day_i)
    /\ pc \in {"batch", "position"} =>
          n_snapshots_processed = SnapshotsBefore(day_i)
    /\ pc = "returned" => n_snapshots_processed = n_snapshots

\* snapshot i (0-based) was in the chip matrix of an acquisition call of its
\* own date, and in the timestamps of the positioning call of its own date
AcquiredOnOwnDay(i) ==
    \E a \in 1..Len(acq_log) :
        /\ acq_log[a].phase = "main"
        /\ acq_log[a].date = date_array[i + 1]
        /\ acq_log[a].lo <= i /\ i < acq_log[a].lo + acq_log[a].rows
PositionedOnOwnDay(i) ==
    \E k \in 1..Len(pos_log) :
        /\ pos_log[k].date = date_array[i + 1]
        /\ pos_log[k].lo <= i /\ i < pos_log[k].lo + pos_log[k].n_times

\* C4: at return, every snapshot of a day without any ephemeris file has
\* latitude NaN, longitude NaN, uncertainty Inf and its input timestamp, and
\* every snapshot of a day with ephemeris was processed as in a run without
\* the day that has none: acquired and positioned in the iteration of its
\* own date.
C4_DayWithoutEphemerisIsSkipped ==
    (pc = "returned" /\ Monotonic) =>
        \A i \in 0..(n_snapshots - 1) :
            IF HasEphemeris(date_array[i + 1])
            THEN AcquiredOnOwnDay(i) /\ PositionedOnOwnDay(i)
            ELSE /\ latitude_output[i + 1] = "nan"
                 /\ longitude_output[i + 1] = "nan"
                 /\ uncertainty_output[i + 1] = "inf"
                 /\ datetime_output[i + 1] = "input"

\* C5: in the loop over the days (196-227, 375-421), for a day without
\* ephemeris for any constellation neither the acquisition nor the
\* positioning primitive is called, and the loop raises no exception.
C5_NoCallForDayWithoutEphemeris ==
    /\ \A a \in 1..Len(acq_log) : HasEphemeris(acq_log[a].date)
    /\ \A k \in 1..Len(pos_log) : HasEphemeris(pos_log[k].date)
    /\ ~(pc = "raised" /\ day_i >= 1)

\* the positioning calls made so far use consecutive ranges
RECURSIVE DaySizesBefore(_)
DaySizesBefore(k) ==
    IF k <= 1 THEN 0 ELSE DaySizesBefore(k - 1) + pos_log[k - 1].n_day

\* C6: for monotonic timestamps and days that all have ephemeris, the index
\* ranges [cursor, cursor + n_day) used per day (chips and timestamps of the
\* acquisition calls, timestamps of the positioning call, result writes) are
\* consecutive and so pairwise disjoint, hold only snapshots of that day's
\* date, are not cut short, and cover 0..n-1 exactly once at return.
C6_DayRangesPartitionInput ==
    (BufferOK /\ Monotonic /\ AllDaysHaveEphemeris) =>
        /\ \A k \in 1..Len(pos_log) :
              /\ pos_log[k].lo = DaySizesBefore(k)
              /\ pos_log[k].n_times = pos_log[k].n_day
              /\ pos_log[k].lo + pos_log[k].n_day <= n_snapshots
              /\ pos_log[k].date = unique_date_array[k]
              /\ \A i \in pos_log[k].lo ..
                          (pos_log[k].lo + pos_log[k].n_day - 1) :
                    date_array[i + 1] = pos_log[k].date
        /\ \A a \in 1..Len(acq_log) :
              acq_log[a].phase = "main" =>
                 /\ acq_log[a].rows = acq_log[a].size
                 /\ acq_log[a].n_times = acq_log[a].size
                 /\ \A i \in acq_log[a].lo ..
                             (acq_log[a].lo + acq_log[a].size - 1) :
                       /\ i < n_snapshots
                       /\ date_array[i + 1] = acq_log[a].date
        /\ pc = "returned" =>
              /\ DaySizesBefore(Len(pos_log) + 1) = n_snapshots
              /\ \A i \in 0..(n_snapshots - 1) :
                    AcquiredOnOwnDay(i) /\ PositionedOnOwnDay(i)
C6_Witness ==
    /\ pc = "returned"
    /\ Monotonic /\ AllDaysHaveEphemeris
    /\ Len(pos_log) = 2
    /\ date_array[1] > date_array[2]

\* the values a call was given are those of the carry-state r
GivenCarry(e, r) ==
    /\ e.time_error = r.time_error
    /\ e.n_failed = r.n_failed
    /\ e.last_plausible_utc = r.last_plausible_utc
    /\ e.latitude = r.latitude
    /\ e.longitude = r.longitude
    /\ e.height = r.height
GivenPosition(e, r) ==
    /\ e.latitude = r.latitude
    /\ e.longitude = r.longitude
    /\ e.height = r.height
\* acquisition call a was made in the day iteration that ended with
\* positioning call k + 1 (or is still running when k is the last call)
AcquiredAfterCall(a, k) ==
    /\ acq_log[a].phase = "main"
    /\ pos_log[k].n_acq < a
    /\ k < Len(pos_log) => a <= pos_log[k + 1].n_acq
CurrentCarry ==
    [time_error |-> time_error_input, n_failed |-> n_failed_input,
     last_plausible_utc |-> last_plausible_utc_input,
     latitude |-> latitude_input, longitude |-> longitude_input,
     height |-> height_input]

\* C7: on every day after the first, time_error, n_failed,
\* last_plausible_utc and the reference position given to the acquisition
\* and positioning calls are the carry-state the positioning primitive
\* reported at the end of the previous day's call.
C7_CarryStatePassedThrough ==
    /\ \A k \in 2..Len(pos_log) :
          GivenCarry(pos_log[k], pos_log[k - 1].reported)
    /\ \A k \in 1..Len(pos_log) : \A a \in 1..Len(acq_log) :
          AcquiredAfterCall(a, k) =>
             GivenPosition(acq_log[a], pos_log[k].reported)
    /\ (pc \in {"batch", "position"} /\ Len(pos_log) >= 1) =>
          GivenCarry(CurrentCarry, pos_log[Len(pos_log)].reported)
C7_Witness ==
    /\ Len(pos_log) = 2
    /\ pos_log[1].reported.height = "h1"
    /\ pos_log[2].height = "h1"
    /\ pos_log[2].n_acq > pos_log[1].n_acq

\* C8: whatever an earlier run left in ctn.state, the first processed day
\* calls acquisition and positioning with time_error 0, n_failed 0, no
\* last plausible timestamp and the caller's latitude/longitude with the
\* looked-up height; the initialize flag is cleared by the first day, so
\* every later day takes the three values from the previous call's report.
C8_FirstDayInitialised ==
    /\ Len(pos_log) >= 1 =>
          /\ pos_log[1].time_error = 0
          /\ pos_log[1].n_failed = 0
          /\ pos_log[1].last_plausible_utc = "none"
          /\ pos_log[1].latitude = "lat_in"
          /\ pos_log[1].longitude = "lon_in"
          /\ pos_log[1].height = "elev"
          /\ \A a \in 1..pos_log[1].n_acq :
                /\ acq_log[a].latitude = "lat_in"
                /\ acq_log[a].longitude = "lon_in"
                /\ acq_log[a].height = "elev"
    /\ (pc \in {"batch", "position"} /\ pos_log = <<>>) =>
          /\ time_error_input = 0 /\ n_failed_input = 0
          /\ last_plausible_utc_input = "none"
    /\ Len(pos_log) >= 1 => ~initialize
    /\ \A k \in 2..Len(pos_log) :
          /\ pos_log[k].time_error = pos_log[k - 1].reported.time_error
          /\ pos_log[k].n_failed = pos_log[k - 1].reported.n_failed
          /\ pos_log[k].last_plausible_utc
                = pos_log[k - 1].reported.last_plausible_utc
C8_Witness ==
    /\ pc = "returned"
    /\ Len(pos_log) = 2
    /\ pos_log[1].n_acq > 0
    /\ pos_log[1].time_error = 0
    /\ pos_log[2].time_error = 1

\* C9: for every day that has at least one constellation the positioning
\* primitive is called exactly once, after all batches of that day were
\* acquired and before any acquisition of the next day, and it is given
\* exactly that day's timestamps.
C9_OnePositioningCallPerDay ==
    (BufferOK /\ Monotonic) =>
        /\ \A k \in 1..Len(pos_log) :
              pos_log[k].gnss # {} =>
                 /\ \A j \in 1..Len(pos_log) :
                       j # k => pos_log[j].date # pos_log[k].date
                 /\ SeqSum(pos_log[k].batch_sizes) = pos_log[k].n_day
                 /\ \A a \in 1..Len(acq_log) :
                       (acq_log[a].phase = "main"
                          /\ acq_log[a].date = pos_log[k].date) =>
                          /\ a <= pos_log[k].n_acq
                          /\ k > 1 => a > pos_log[k - 1].n_acq
                 /\ pos_log[k].n_times = pos_log[k].n_day
                 /\ \A i \in pos_log[k].lo ..
                             (pos_log[k].lo + pos_log[k].n_times - 1) :
                       date_array[i + 1] = pos_log[k].date
        /\ pc = "returned" =>
              \A d \in 1..Len(unique_date_array) :
                 HasEphemeris(unique_date_array[d]) =>
                    \E k \in 1..Len(pos_log) :
                       pos_log[k].date = unique_date_array[d]

\* number of detections of constellation g in the batches before batch b
RECURSIVE DetectionsBefore(_, _, _)
DetectionsBefore(p, g, b) ==
    IF b <= 1 THEN 0
    ELSE DetectionsBefore(p, g, b - 1) + Len(p.batch_idx[b - 1][g])

C11_NonFiniteSnrClamped ==
    \A k \in 1..Len(pos_log) :
        LET p == pos_log[k]
        IN \A g \in p.gnss :
              /\ Len(p.snr[g]) = Len(p.snapshot_idx[g])
              /\ Len(p.snr[g]) = DetectionsBefore(p, g, Len(p.batch_snr) + 1)
              /\ \A b \in 1..Len(p.batch_snr) :
                    \A n \in 1..Len(p.batch_snr[b][g]) :
                       LET raw == p.batch_snr[b][g][n]
                           out == p.snr[g][DetectionsBefore(p, g, b) + n]
                       IN /\ out \notin {"nan", "+inf", "-inf"}
                          /\ raw \in {"nan", "+inf", "-inf"} =>
                                out = "nextafter(0,1)"
                          /\ raw \notin {"nan", "+inf", "-inf"} => out = raw
C11_Witness ==
    \E k \in 1..Len(pos_log) : \E g \in pos_log[k].gnss :
        /\ Len(pos_log[k].batch_snr) >= 2
        /\ \E n \in 1..Len(pos_log[k].batch_snr[2][g]) :
              pos_log[k].batch_snr[2][g][n] = "-inf"
        /\ \E n \in 1..Len(pos_log[k].batch_snr[1][g]) :
              pos_log[k].batch_snr[1][g][n] = "nan"
        /\ \E q \in 1..Len(pos_log[k].snr[g]) : pos_log[k].snr[g][q] = "0.0"

\* the acquisition calls of the day iteration that ended with positioning
\* call k
MainAcqOfDay(k) ==
    {a \in 1..pos_log[k].n_acq :
        /\ acq_log[a].phase = "main"
        /\ k > 1 => a > pos_log[k - 1].n_acq}
\* the load attempts of the main loop, in order
MainAttempts == SelectSeq(calls.tried, LAMBDA t : t.phase = "main")
PartialEphemeris(date) == navigation_data[date] \notin {{}, GNSSSet}

EstimatorAcq == SelectSeq(acq_log, LAMBDA a : a.phase = "estimate")
EstimatorRunning == pc \in {"estimate", "sample"}
EstimatorSamplesOK ==
    /\ calls.bias <= Min(100, n_snapshots)
    /\ calls.bias = Len(est.frequency_error_list)
    /\ Len(EstimatorAcq) = calls.bias
    /\ \A k \in 1..Len(EstimatorAcq) :
          /\ EstimatorAcq[k].lo = k - 1
          /\ EstimatorAcq[k].size = 1
          /\ EstimatorAcq[k].rows = 1
          /\ EstimatorAcq[k].n_times = 1
    /\ est.n_inliers = CountTrue(est.inliers)
    /\ pc = "sample" => est.n_inliers < 5

\* what is left of the estimator's two loops: dates still to visit, the step
\* to the while loop, samples still allowed
EstimatorVariant ==
    3 * (Len(unique_date_array) + 1 - est.day_i)
    + (IF pc = "estimate" THEN 1 ELSE 0)
    + (Min(100, n_snapshots) - calls.bias)

\* C13: _estimate_intermediate_frequency2 terminates (every step of its loops
\* lowers a non-negative measure); it takes at most
\* min(100, len(datetime_input)) samples over all days, the k-th sample is
\* taken from snapshot k-1 alone, and no sample is taken after a sample that
\* left at least 5 inliers.
C13_EstimatorTerminatesWithinCap ==
    /\ []EstimatorSamplesOK
    /\ [](EstimatorRunning => EstimatorVariant >= 0)
    /\ [][EstimatorRunning => EstimatorVariant' < EstimatorVariant]_vars
    /\ [][est.n_inliers >= 5 => calls'.bias = calls.bias]_vars
C13_Witness ==
    /\ pc = "returned"
    /\ est.n_inliers >= 5
    /\ calls.bias = 5
    /\ n_snapshots = 6
    /\ Len(unique_date_array) = 2
    /\ CountDate(unique_date_array[1]) = 5
    /\ est.frequency_error_list[1] = 40

\* the estimator has handed its result to process_snapshots
EstimatorReturned ==
    intermediate_frequency_in = IFNone /\ calls.outputs = 1

\* C14: the intermediate frequency the estimator returns is finite: relative
\* to 4.092e6 it is the last frequency-error estimate when that is finite and
\* zero when it is NaN or infinite; whatever the samples are, a run with at
\* least one snapshot and ephemeris on every day is not failed by the
\* estimator.
C14_ReturnedIFIsFinite ==
    /\ EstimatorReturned =>
          /\ IsFinite(frequency_offset[1])
          /\ frequency_offset[2] >= 1
          /\ est.frequency_error[1] \notin {NpInf, 0 - NpInf, NpNaN} =>
                frequency_offset = est.frequency_error
          /\ est.frequency_error[1] \in {NpInf, 0 - NpInf, NpNaN} =>
                frequency_offset = <<0, 1>>
    /\ (intermediate_frequency_in = IFNone /\ n_snapshots >= 1
          /\ AllDaysHaveEphemeris) => pc # "raised"
C14_Witness ==
    /\ pc = "returned"
    /\ EstimatorReturned
    /\ est.frequency_error[1] = 0 - NpInf
    /\ \E p \in 1..Len(est.frequency_error_list) :
          est.frequency_error_list[p] = NpNaN \/ est.frequency_error_list[p] = 0

\* C15: with intermediate_frequency=None, a day without any ephemeris file
\* does not abort the run: the estimator returns an intermediate frequency
\* and an inlier index set, and process_snapshots returns one output record
\* per snapshot and a frequency_offset.
C15_EstimatorSurvivesDayWithoutEphemeris ==
    (intermediate_frequency_in = IFNone /\ BufferOK
        /\ \E i \in 1..n_snapshots : ~HasEphemeris(date_array[i])) =>
       /\ pc # "raised"
       /\ pc \in {"day", "batch", "position", "returned"} =>
             /\ est.inliers_bound
             /\ Len(intermediate_frequency) = n_snapshots
       /\ pc = "returned" =>
             /\ Len(latitude_output) = n_snapshots
             /\ Len(uncertainty_output) = n_snapshots
             /\ frequency_offset[2] >= 1

\* C16: with a supplied intermediate_frequency the estimator and the
\* frequency-bias primitive are never called, frequency_offset is the
\* supplied value minus 4.092e6, and every acquisition call is given the
\* supplied value for each of its snapshots, with or without a temperature
\* array.
C16_SuppliedIFUsedUnchanged ==
    intermediate_frequency_in # IFNone =>
       /\ calls.estimator = 0 /\ calls.bias = 0
       /\ est = NoEst
       /\ pc \notin {"estimate", "sample"}
       /\ \A a \in 1..Len(acq_log) :
             /\ acq_log[a].phase = "main"
             /\ Len(acq_log[a].intermediate_frequency) = acq_log[a].n_times
             /\ \A q \in 1..Len(acq_log[a].intermediate_frequency) :
                   LET f == acq_log[a].intermediate_frequency[q]
                   IN /\ f[2] >= 1
                      /\ f[1] + 4092000 * f[2]
                            = intermediate_frequency_in * f[2]
       /\ calls.outputs = 1 =>
             /\ frequency_offset[2] = 1
             /\ frequency_offset[1] = intermediate_frequency_in - 4092000
C16_Witness ==
    /\ pc = "returned"
    /\ intermediate_frequency_in # IFNone
    /\ temperature.given
    /\ Len(acq_log) = 2
    /\ Len(acq_log[1].intermediate_frequency) >= 2
    /\ Len(acq_log[2].intermediate_frequency) >= 2
    /\ frequency_offset = <<100, 1>>

\* the snapshots (0-based) whose sample is an inlier at the estimator's end
InlierSnapshots == {i \in 0..(Len(est.inliers) - 1) : est.inliers[i + 1]}
RECURSIVE TemperatureSum(_)
TemperatureSum(set) ==
    IF set = {} THEN 0
    ELSE LET i == CHOOSE j \in set : TRUE
         IN temperature.values[i + 1] + TemperatureSum(set \ {i})

\* C17: when the estimator ran, frequency_offset is set once, to the
\* estimated IF minus 4.092e6, with or without a temperature array; the IF
\* of snapshot i is the estimated IF - 12 * (T_i - mean of T over the inlier
\* snapshots) if a temperature array is given and there is an inlier, and the
\* estimated IF for every snapshot otherwise; acquisition is given these
\* per-snapshot values.
C17_OffsetOnceAndTemperatureCompensation ==
    /\ [](EstimatorReturned =>
            /\ frequency_offset =
                  (IF est.frequency_error[1] \in {NpInf, 0 - NpInf, NpNaN}
                   THEN <<0, 1>> ELSE est.frequency_error)
            /\ Len(intermediate_frequency) = n_snapshots
            /\ \A i \in 1..n_snapshots :
                  LET f == intermediate_frequency[i]
                      e == frequency_offset
                      m == Cardinality(InlierSnapshots)
                      s == TemperatureSum(InlierSnapshots)
                  IN /\ f[2] >= 1
                     /\ IF temperature.given /\ InlierSnapshots # {}
                        THEN f[1] * e[2] * m
                                = f[2] * (e[1] * m
                                          - 12 * temperature.values[i] * e[2] * m
                                          + 12 * s * e[2])
                        ELSE f[1] * e[2] = e[1] * f[2]
            /\ \A a \in 1..Len(acq_log) :
                  acq_log[a].phase = "main" =>
                     \A q \in 1..Len(acq_log[a].intermediate_frequency) :
                        acq_log[a].intermediate_frequency[q]
                           = intermediate_frequency[acq_log[a].lo + q])
    /\ [][(intermediate_frequency_in = IFNone /\ frequency_offset # <<0, 0>>)
            => frequency_offset' = frequency_offset]_vars
    /\ [](intermediate_frequency_in = IFNone /\ ~EstimatorReturned
            => frequency_offset = <<0, 0>>)
C17_Witness ==
    /\ pc = "returned"
    /\ EstimatorReturned
    /\ temperature.given
    /\ Cardinality(InlierSnapshots) \in 1..(n_snapshots - 2)
    /\ est.frequency_error[1] # 0
    /\ \E a \in 1..Len(acq_log) :
          /\ acq_log[a].phase = "main"
          /\ Len(acq_log[a].intermediate_frequency) >= 2
          /\ acq_log[a].intermediate_frequency[1]
                # acq_log[a].intermediate_frequency[2]

\* C18: when a second run of process_snapshots in the same process completes
\* a day between two days of this run, day N+1 of this run is still given
\* the carry-state that its own day N reported, and no value the other run's
\* positioning call wrote.
C18_CarryStatePrivateToRun ==
    \A k \in 2..Len(pos_log) :
        /\ \A r \in OtherRunReports :
              /\ pos_log[k].time_error # r.time_error
              /\ pos_log[k].n_failed # r.n_failed
              /\ pos_log[k].latitude # r.latitude
              /\ pos_log[k].height # r.height
        /\ GivenCarry(pos_log[k], pos_log[k - 1].reported)

\* the date of the first snapshot whose date is none of the dates in `done`
NextNewDate(done) ==
    date_array[CHOOSE i \in 1..n_snapshots :
                  /\ date_array[i] \notin done
                  /\ \A j \in 1..(i - 1) : date_array[j] \in done]
PositionedDates(k) == {pos_log[j].date : j \in 1..k}

\* C19: the days are processed one after another in the order in which their
\* dates first appear in datetime_input: the k-th positioning call is for the
\* first date not processed before, all acquisition calls of an iteration
\* are for that date, and each day is given the carry-state of the day
\* processed before it; for decreasing timestamps the latest date comes
\* first and feeds the next earlier one.
C19_DaysInOrderOfFirstAppearance ==
    /\ \A k \in 1..Len(pos_log) :
          /\ pos_log[k].date \notin PositionedDates(k - 1)
          /\ pos_log[k].date = NextNewDate(PositionedDates(k - 1))
          /\ \A a \in MainAcqOfDay(k) : acq_log[a].date = pos_log[k].date
          /\ k >= 2 =>
                /\ pos_log[k].latitude = pos_log[k - 1].reported.latitude
                /\ pos_log[k].time_error = pos_log[k - 1].reported.time_error
    /\ \A a \in 1..Len(acq_log) :
          (acq_log[a].phase = "main"
              /\ (pos_log # <<>> => a > pos_log[Len(pos_log)].n_acq)) =>
             acq_log[a].date = NextNewDate(PositionedDates(Len(pos_log)))
    /\ pc = "returned" =>
          PositionedDates(Len(pos_log)) = {date_array[i] : i \in 1..n_snapshots}
    /\ (\A i \in 1..(n_snapshots - 1) : date_array[i] >= date_array[i + 1]) =>
          \A k \in 2..Len(pos_log) : pos_log[k].date < pos_log[k - 1].date
C19_Witness ==
    /\ pc = "returned"
    /\ n_snapshots = 2
    /\ date_array[1] = 2 /\ date_array[2] = 1
    /\ Len(pos_log) = 2
    /\ pos_log[1].date = 2 /\ pos_log[2].date = 1
    /\ pos_log[1].reported.time_error = 1
    /\ pos_log[2].time_error = 1
    /\ \E a \in MainAcqOfDay(2) : acq_log[a].date = 1

\* bit j (0 = least significant) of a byte
BitOf(byte, j) == (byte \div (2 ^ j)) % 2
ChipsDecodedLsbFirst(a) ==
    /\ a.signals.row_len = 49104
    /\ \A r \in 1..Len(a.signals.head) :
          /\ \A c \in 1..Len(a.signals.head[r]) :
                a.signals.head[r][c] \in {1, 0 - 1}
          /\ \A k \in 0..1 : \A j \in 0..7 :
                a.signals.head[r][8 * k + j + 1]
                   = IF BitOf(ByteAt(a.lo + r - 1, k), j) = 0 THEN 1
                     ELSE 0 - 1

\* C20: in every chip matrix given to acquisition each chip is +1 or -1,
\* chips 8k..8k+7 of a row are the bits of byte k of that snapshot, least
\* significant first, 0 as +1 and 1 as -1, a row has 49104 chips, and the
\* matrix of a batch has one row per snapshot of the batch.
C20_ChipMatrixOfBatch ==
    \A a \in 1..Len(acq_log) :
        /\ ChipsDecodedLsbFirst(acq_log[a])
        /\ Len(acq_log[a].signals.head) = acq_log[a].size
        /\ acq_log[a].rows = acq_log[a].size

\* the decoding alone
ChipsAlwaysDecodedLsbFirst ==
    \A a \in 1..Len(acq_log) : ChipsDecodedLsbFirst(acq_log[a])

\* the main-loop acquisition calls of constellation g made since positioning
\* call k - 1 and up to call k, in order
BatchCalls(k, g) ==
    SelectSeq([a \in 1..Len(acq_log) |-> [acq_log[a] EXCEPT !.phase = a]],
              LAMBDA e : e.phase \in MainAcqOfDay(k) /\ e.gnss = g)
\* the snapshots (0-based) of the date of positioning call k
DaySegment(k) ==
    {i \in 0..(n_snapshots - 1) : date_array[i + 1] = pos_log[k].date}

\* C21: within a day the batches tile the day: every batch has between 1 and
\* max_batch_size snapshots, the sizes sum to the day's snapshot count, a
\* batch starts where the one before ended, and the chips, the timestamps and
\* the per-snapshot IF values of one acquisition call all cover the same
\* index range of the input, which lies inside the day's own segment.
C21_BatchesTileDay ==
    (BufferOK /\ Monotonic) =>
        \A k \in 1..Len(pos_log) :
            LET p == pos_log[k]
            IN /\ \A b \in 1..Len(p.batch_sizes) :
                     p.batch_sizes[b] >= 1 /\ p.batch_sizes[b] <= max_batch_size
               /\ SeqSum(p.batch_sizes) = p.n_day
               /\ \A g \in p.gnss :
                     LET c == BatchCalls(k, g)
                     IN /\ Len(c) = Len(p.batch_sizes)
                        /\ \A b \in 1..Len(c) :
                              /\ c[b].size = p.batch_sizes[b]
                              /\ c[b].lo = p.lo + SeqSum(SubSeq(p.batch_sizes,
                                                                1, b - 1))
                              /\ c[b].rows = c[b].size
                              /\ c[b].n_times = c[b].size
                              /\ Len(c[b].intermediate_frequency) = c[b].size
                              /\ \A i \in c[b].lo..(c[b].lo + c[b].size - 1) :
                                    i \in DaySegment(k)

\* the acquisition calls added by the step
NewAcq == {a \in 1..Len(acq_log') : a > Len(acq_log)}
\* the step takes one estimator sample
SampleStep == pc = "sample" /\ calls'.bias = calls.bias + 1
HalfWidths == {1300, 1150, 1000, 850, 700}
\* the window x is centre - h .. centre + h for a finite centre
WindowIs(x, centre, h) ==
    /\ x.lower[2] >= 1 /\ x.upper[2] >= 1
    /\ x.lower[1] * centre[2] = (centre[1] - h * centre[2]) * x.lower[2]
    /\ x.upper[1] * centre[2] = (centre[1] + h * centre[2]) * x.upper[2]

\* C22 as stated: for each estimator sample the search window is centred on
\* the nominal intermediate frequency and spans nominal +- (1300 - 150 *
\* min(inliers, 4)) Hz in 53 points, inliers being the count left by the
\* previous sample; the half-width is one of 1300, 1150, 1000, 850, 700.
C22_WindowCentredOnNominal ==
    [][SampleStep =>
          \A a \in NewAcq :
             /\ acq_log'[a].intermediate_frequency = <<<<0, 1>>>>
             /\ acq_log'[a].frequency_bins.num = 53
             /\ (1300 - 150 * Min(est.n_inliers, 4)) \in HalfWidths
             /\ WindowIs(acq_log'[a].frequency_bins, <<0, 1>>,
                         1300 - 150 * Min(est.n_inliers, 4))]_vars

\* C22 amended: acquisition is given the nominal IF and a window of 53 points
\* centred on the running frequency-error estimate left by the previous
\* sample (0 before the first, so only the first window is centred on the
\* nominal IF): nominal + estimate +- (1300 - 150 * min(inliers, 4)) Hz for a
\* finite estimate; the half-width is one of 1300, 1150, 1000, 850, 700.
C22_WindowCentredOnEstimate ==
    [][SampleStep =>
          /\ est.n_inliers = CountTrue(est.inliers)
          /\ est.frequency_error_list = <<>> =>
                est.frequency_error = <<0, 1>> /\ est.n_inliers = 0
          /\ \A a \in NewAcq :
                /\ acq_log'[a].intermediate_frequency = <<<<0, 1>>>>
                /\ acq_log'[a].frequency_bins.num = 53
                /\ (1300 - 150 * Min(est.n_inliers, 4)) \in HalfWidths
                /\ est.frequency_error[1] \notin {NpInf, 0 - NpInf, NpNaN} =>
                      WindowIs(acq_log'[a].frequency_bins, est.frequency_error,
                               1300 - 150 * Min(est.n_inliers, 4))]_vars
C22_Witness ==
    \E a \in 1..Len(acq_log) :
        /\ acq_log[a].phase = "estimate"
        /\ acq_log[a].lo = 2
        /\ acq_log[a].frequency_bins.lower[1] * 5
              = (40 - 1000 * 5) * acq_log[a].frequency_bins.lower[2]
        /\ acq_log[a].frequency_bins.upper[1] * 5
              = (40 + 1000 * 5) * acq_log[a].frequency_bins.upper[2]

\* the width upper - lower of a window with finite ends
WidthOf(x) == (x.upper[1] - x.lower[1]) \div x.lower[2]
FiniteWindow(x) == IsFinite(x.lower[1]) /\ IsFinite(x.upper[1])
\* the estimator's acquisition calls for sample k (1-based)
AcqOfSample(k) ==
    {a \in 1..Len(acq_log) :
        acq_log[a].phase = "estimate" /\ acq_log[a].lo = k - 1}

\* C23 as stated: across successive estimator samples the search window only
\* narrows: the half-width used for sample k+1 is never larger than the
\* half-width used for sample k.
C23_WindowOnlyNarrows ==
    \A a \in 1..Len(acq_log) : \A b \in 1..Len(acq_log) :
        (/\ acq_log[a].phase = "estimate" /\ acq_log[b].phase = "estimate"
         /\ acq_log[b].lo = acq_log[a].lo + 1
         /\ FiniteWindow(acq_log[a].frequency_bins)
         /\ FiniteWindow(acq_log[b].frequency_bins)) =>
            WidthOf(acq_log[b].frequency_bins)
               <= WidthOf(acq_log[a].frequency_bins)

\* the inlier count left by the sample before the last one
InliersBeforeLast ==
    IF Len(est.frequency_error_list) <= 1 THEN 0
    ELSE CountTrue(InlierMask(SubSeq(est.frequency_error_list, 1,
                                     Len(est.frequency_error_list) - 1)))

\* C23 amended: the half-width follows the inlier count, which a sample that
\* moves the median can lower: the half-width used for sample k+1 is
\* 1300 - 150 * min(n_k, 4), n_k being the inlier count after sample k; it is
\* never larger than the first half-width (1300 Hz), and it is no larger than
\* the half-width used for sample k exactly when min(n_k, 4) >= min(n_k-1, 4).
C23_WindowFollowsInlierCount ==
    [][(SampleStep /\ est.frequency_error_list # <<>>) =>
          \A b \in NewAcq :
             \A a \in AcqOfSample(Len(est.frequency_error_list)) :
                (FiniteWindow(acq_log[a].frequency_bins)
                   /\ FiniteWindow(acq_log'[b].frequency_bins)) =>
                   /\ WidthOf(acq_log'[b].frequency_bins)
                         = 2 * (1300 - 150 * Min(est.n_inliers, 4))
                   /\ WidthOf(acq_log[a].frequency_bins)
                         = 2 * (1300 - 150 * Min(InliersBeforeLast, 4))
                   /\ WidthOf(acq_log'[b].frequency_bins) <= 2 * 1300
                   /\ (WidthOf(acq_log'[b].frequency_bins)
                          <= WidthOf(acq_log[a].frequency_bins))
                      <=> (Min(est.n_inliers, 4)
                              >= Min(InliersBeforeLast, 4))]_vars
\* the window of the sixth sample is wider than that of the fifth
C23_Witness ==
    \E a \in AcqOfSample(5) : \E b \in AcqOfSample(6) :
        /\ WidthOf(acq_log[a].frequency_bins) = 1400
        /\ WidthOf(acq_log[b].frequency_bins) = 1700

\* the estimate is sum / count (an infinite sum stays infinite)
EstimateIs(sum, count) ==
    /\ est.frequency_error[2] >= 1
    /\ IF sum \in {NpInf, 0 - NpInf} THEN est.frequency_error[1] = sum
       ELSE est.frequency_error[1] * count = sum * est.frequency_error[2]
SampleTaken == EstimatorRunning /\ est.frequency_error_list # <<>>
SumOfInliers ==
    InlierSum(est.frequency_error_list, InlierMask(est.frequency_error_list))
NumberOfInliers == CountTrue(InlierMask(est.frequency_error_list))

\* C24 as stated: after each estimator sample, with fewer than 5 samples
\* within +-25 Hz of the median of all samples the estimate is the sum of
\* those inliers divided by 5, with 5 or more it is their mean, for every
\* total number of input snapshots.
C24_PaddedToFive ==
    SampleTaken =>
        EstimateIs(SumOfInliers,
                   IF NumberOfInliers < 5 THEN 5 ELSE NumberOfInliers)

\* C24 amended: the inlier list is left-padded with zeros to length
\* min(5, number of input snapshots): with fewer inliers than that the
\* estimate is their sum divided by min(5, number of input snapshots), else
\* it is their plain mean; only for inputs of at least 5 snapshots is the
\* divisor 5.
C24_PaddedToFiveOrInputLength ==
    SampleTaken =>
        /\ est.n_inliers = NumberOfInliers
        /\ EstimateIs(SumOfInliers,
                      IF NumberOfInliers < Min(5, n_snapshots)
                      THEN Min(5, n_snapshots) ELSE NumberOfInliers)
        /\ n_snapshots >= 5 =>
              EstimateIs(SumOfInliers,
                         IF NumberOfInliers < 5 THEN 5 ELSE NumberOfInliers)
C24_Witness ==
    /\ n_snapshots = 3
    /\ est.frequency_error_list = <<0, 40, 40>>
    /\ NumberOfInliers = 2
    /\ est.frequency_error[1] * 3 = 80 * est.frequency_error[2]

\* ceil(n / m) for m >= 1
CeilDiv(n, m) == (n + m - 1) \div m

\* C25: for every max_batch_size >= 1 (the unbounded default included) the
\* batch loop of a day with n_day snapshots ends after exactly
\* ceil(n_day / max_batch_size) batches, and every available constellation
\* is acquired exactly once per batch (and no other constellation at all).
C25_BatchCountIsCeiling ==
    max_batch_size >= 1 =>
        /\ pc = "batch" =>
              /\ n_snapshots_processed_day < n_snapshots_day
              /\ Len(batch_size_list)
                    < CeilDiv(n_snapshots_day, max_batch_size)
              /\ Len(batch_size_list)
                    = CeilDiv(n_snapshots_processed_day, max_batch_size)
        /\ \A k \in 1..Len(pos_log) :
              LET p == pos_log[k]
              IN /\ Len(p.batch_sizes) = CeilDiv(p.n_day, max_batch_size)
                 /\ \A g \in GNSSSet :
                       Cardinality({a \in MainAcqOfDay(k) :
                                       acq_log[a].gnss = g})
                          = IF g \in p.gnss THEN Len(p.batch_sizes) ELSE 0
                 /\ \A b \in 1..Len(p.batch_sizes) : \A g \in p.gnss :
                       Cardinality({a \in MainAcqOfDay(k) :
                                       /\ acq_log[a].gnss = g
                                       /\ acq_log[a].lo = p.lo +
                                            SeqSum(SubSeq(p.batch_sizes,
                                                          1, b - 1))}) = 1
C25_Witness ==
    /\ pc = "returned"
    /\ max_batch_size = 2
    /\ \E k \in 1..Len(pos_log) :
          /\ pos_log[k].n_day = 5
          /\ pos_log[k].batch_sizes = <<2, 2, 1>>
          /\ pos_log[k].gnss = GNSSSet
          /\ Cardinality(MainAcqOfDay(k)) = 9

\* the step is one iteration of the batch loop
BatchStep == pc = "batch" /\ Len(batch_size_list') = Len(batch_size_list) + 1

\* C26: process_snapshots terminates for every integer max_batch_size the
\* queue worker can pass on, 0 and negative values included: every iteration
\* of the batch loop strictly increases n_snapshots_processed_day (and so
\* lowers the number of snapshots of the day still to acquire).
C26_BatchCursorStrictlyIncreases ==
    [][(BatchStep /\ eph_dict # {}) =>
          /\ n_snapshots_processed_day' > n_snapshots_processed_day
          /\ n_snapshots_day - n_snapshots_processed_day' >= 0]_vars

\* instance w is inside _process_upload for upload u
Processing(w, u) ==
    upload_id[w] = u /\ wpc[w] \in {"process", "complete"}

\* C27: with several instances polling the same uploads table no upload is
\* processed by two of them: two instances are never inside _process_upload
\* for the same upload, and the position rows of an upload are inserted at
\* most once.
C27_NoUploadProcessedTwice ==
    \A u \in DOMAIN status :
        /\ n_positions[u] <= 1
        /\ \A w1 \in DOMAIN wpc : \A w2 \in DOMAIN wpc :
              (Processing(w1, u) /\ Processing(w2, u)) => w1 = w2


\* C28: an upload does not stay in status 'processing': whenever an upload is
\* 'processing' (also after an exception has interrupted the instance that
\* marked it), it is later 'waiting' again or 'complete'.
C28_ProcessingIsLeft ==
    \A u \in Uploads :
        (status[u] = "processing") ~> (status[u] \in {"waiting", "complete"})


\* instance w leaves the place `at` of its code in this step
Leaves(w, at) == wpc[w] = at /\ wpc'[w] # at

\* C29: after an exception in the polling loop the instance reports it and
\* sleeps restart_wait_time, which is then doubled; it closes the cursor and
\* the connection and stops the bots; then it reconnects and resumes polling
\* with a new session. A polling iteration that completes without exception
\* resets restart_wait_time to 60 s.
C29_RestartResumesPolling ==
    [][\A w \in DOMAIN wpc :
          /\ Leaves(w, "except") =>
                /\ restarts'[w] = <<"report", <<"sleep", restart_wait_time[w]>>>>
                /\ restart_wait_time'[w] = 2 * restart_wait_time[w]
          /\ Leaves(w, "finally") =>
                /\ session'[w].cursor = "closed"
                /\ session'[w].conn = "closed"
                /\ session'[w].t_bot # "running"
                /\ session'[w].e_bot = "stopped"
          /\ Leaves(w, "connect") =>
                /\ wpc'[w] = "select"
                /\ session'[w] = OpenSession(w)
          /\ wpc'[w] = "select" /\ wpc[w] # "select" =>
                restart_wait_time'[w] = 60]_vars


\* the rows instance w has examined in its current poll, and the last verdict
Examined(w) == poll[w].seen
FoundReady(w) == Examined(w) # <<>> /\ Examined(w)[Len(Examined(w))].ready
\* what one poll of instance w has done so far
PollInOrder(w) ==
    LET fetched == poll[w].fetched
        seen == Examined(w)
    IN \* the list is the oldest upload first
       /\ \A i \in 1..Len(fetched) : \A j \in 1..Len(fetched) :
             i < j => UploadDatetime(fetched[i]) < UploadDatetime(fetched[j])
       \* and it is examined in that order, without a gap
       /\ Len(seen) <= Len(fetched)
       /\ \A k \in 1..Len(seen) : seen[k].id = fetched[k]
       \* all rows before the last examined one were not ready
       /\ \A k \in 1..(Len(seen) - 1) : ~seen[k].ready
       \* the upload in _process_upload is the one just found ready
       /\ wpc[w] \in {"process", "complete", "notify"} =>
             FoundReady(w) /\ seen[Len(seen)].id = upload_id[w]
       \* after a ready upload no further row of this list is touched
       /\ FoundReady(w) => wpc[w] \notin {"for", "setwaiting"}
       \* the loop over the list ends early for a ready upload only
       /\ (wpc[w] = "for" /\ waiting_uploads_table[w] = <<>>) =>
             Len(seen) = Len(fetched)

NavDataComplete(u) ==
    LET epd == earliest_processing_date[u]
        needed == IF HourOf(epd) = 0 THEN DateOf(epd) ELSE DateOf(epd) - 1
    IN /\ \A g \in GNSSSet :
             \E d \in nav_files[g] : d >= needed
       /\ utcnow > epd

\* C31: an upload is handed to _process_upload only if for each of GPS,
\* Galileo and BeiDou the newest navigation file is dated on or after the
\* last needed date and the current time is later than
\* earliest_processing_date; otherwise no position row is written for it
\* and its status returns to 'waiting'.
C31_ProcessedOnlyWhenNavigationDataComplete ==
    [][\A w \in DOMAIN wpc :
          /\ Leaves(w, "check") =>
                IF NavDataComplete(upload_id[w])
                THEN wpc'[w] = "process"
                ELSE wpc'[w] = "setwaiting"
          /\ Leaves(w, "setwaiting") =>
                /\ status'[upload_id[w]] = "waiting"
                /\ n_positions' = n_positions]_vars


\* the places of an instance between _process_upload and the `break`
NotifyPlaces == {"notify", "final_email", "telegram"}

\* C32: a completion notification for an upload is sent only by an instance
\* that has inserted the position rows of that upload and has set its status
\* to 'complete' before: an instance reaches the first sender only from the
\* UPDATE that sets 'complete', for the same upload, and every message goes
\* out in a sender step of such an instance; the push and Telegram senders
\* send nothing when the status they read is not 'complete'.
C32_NotifiedOnlyAfterComplete ==
    [][/\ \A w \in DOMAIN wpc :
             /\ (wpc'[w] = "notify" /\ wpc[w] # "notify") =>
                   /\ wpc[w] = "complete"
                   /\ status'[upload_id[w]] = "complete"
                   /\ n_positions'[upload_id[w]] >= 1
             /\ wpc[w] \in NotifyPlaces \cup {"complete"} =>
                   upload_id'[w] = upload_id[w]
             /\ (wpc'[w] \in NotifyPlaces \ {"notify"} /\ wpc'[w] # wpc[w]) =>
                   wpc[w] \in NotifyPlaces
       /\ \A m \in sent' \ sent :
             /\ \E w \in DOMAIN wpc :
                   /\ wpc[w] \in NotifyPlaces /\ wpc'[w] # wpc[w]
                   /\ upload_id[w] = m[1]
             /\ n_positions[m[1]] >= 1
             /\ m[2] \in {"push", "telegram"} => status[m[1]] = "complete"]_vars
\* all three messages for upload 1 have gone out
C32_Witness ==
    /\ {<<1, "push">>, <<1, "email">>, <<1, "telegram">>} \subseteq sent
    /\ status[1] = "complete" /\ n_positions[1] = 1


\* C37: final_email sets the stored address of the upload to NULL only in a
\* call in which the e-mail step finished without error (for a real address
\* the e-mail has gone out); when the lookup or the sending fails the address
\* is left as it was; in every case the exception is passed over and the
\* instance goes on to the Telegram notification.
C37_AddressClearedOnlyAfterEmail ==
    [][\A w \in DOMAIN wpc :
          Leaves(w, "final_email") =>
             LET u == upload_id[w]
             IN /\ wpc'[w] = "telegram"
                /\ \A v \in DOMAIN email : v # u => email'[v] = email[v]
                /\ email'[u] \in {email[u], "NULL"}
                /\ (email'[u] # email[u] /\ email[u] # "") =>
                      <<u, "email">> \in sent'
                /\ (email[u] = "user@mail" /\ <<u, "email">> \notin sent') =>
                      email'[u] = email[u]]_vars
\* the e-mail for upload 1 has gone out and its address has been cleared
C37_Witness ==
    \E w \in DOMAIN wpc :
        /\ wpc[w] = "telegram" /\ upload_id[w] = 1
        /\ <<1, "email">> \in sent
        /\ email[1] = "NULL"


\* the snapshots of the upload whose timestamp lies in
\* [start reference time, end reference time], in the order fetched
WindowTest(r) ==
    reference_points[1] <= r.datetime /\ r.datetime <= reference_points[2]
SnapshotsInWindow == SelectSeq(upload_rows, WindowTest)

\* C33: _process_upload inserts one position row for each snapshot of the
\* upload whose timestamp lies in [start reference time, end reference time]
\* and none for the others: the k-th row inserted is for the k-th such
\* snapshot in ascending time order and holds the k-th element of each
\* output array, its time correction being k-th output timestamp minus the
\* timestamp of that snapshot; at return all these rows are there.
C33_OnePositionPerSnapshotInWindow ==
    /\ upc \in {"start", "call", "raised"} => positions = <<>>
    /\ upc \in {"insert", "returned"} =>
          /\ Len(positions) <= Len(SnapshotsInWindow)
          /\ \A k \in 1..Len(positions) :
                positions[k] =
                   [snapshot_id |-> SnapshotsInWindow[k].snapshot_id,
                    estimated_lat |-> <<"latitude_output", k - 1>>,
                    estimated_lng |-> <<"longitude_output", k - 1>>,
                    estimated_time_correction |->
                        <<"datetime_output", k - 1,
                          SnapshotsInWindow[k].datetime>>,
                    estimated_horizontal_error |->
                        <<"uncertainty_output", k - 1>>]
    /\ upc = "returned" => Len(positions) = Len(SnapshotsInWindow)
\* a run that has returned, with a snapshot before the window, one on its
\* start and one on its end
C33_Witness ==
    /\ upc = "returned"
    /\ Len(upload_rows) = 3 /\ Len(positions) = 2
    /\ upload_rows[1].datetime < reference_points[1]
    /\ upload_rows[2].datetime = reference_points[1]
    /\ upload_rows[3].datetime = reference_points[2]

\* C34: the temperature array passed to process_snapshots has one entry per
\* snapshot passed, in the order of datetime_input: entry i of temperature,
\* of datetime_input and of the snapshot buffer belong to the same row.
C34_TemperatureAlignedWithSnapshots ==
    upc \in {"call", "insert", "returned", "raised"} =>
        /\ Len(passed.temperature) = Len(passed.datetime_input)
        /\ Len(passed.snapshots) = Len(passed.datetime_input)
        /\ \A i \in 1..Len(passed.datetime_input) :
              \E j \in 1..Len(upload_rows) :
                 /\ passed.datetime_input[i] = upload_rows[j].datetime
                 /\ passed.snapshots[i] = upload_rows[j].snapshot_id
                 /\ passed.temperature[i] = upload_rows[j].temperature


\* C35: the e-mail bot sends the 'data uploaded' e-mail exactly once for
\* every upload it finds in status 'waiting': no upload gets it twice, and
\* when the bot has gone through the rows of a SELECT every upload among
\* them has got it, whatever the order of the rows, also for uploads of the
\* same upload time and for uploads that went back to 'waiting'.
C35_InitialEmailOncePerWaitingUpload ==
    /\ \A u \in DOMAIN initial_emails : initial_emails[u] <= 1
    /\ (mpc = "for" /\ mail_table.todo = <<>>) =>
          \A k \in 1..Len(mail_table.fetched) :
              initial_emails[mail_table.fetched[k]] = 1

\* C36: after stop() has returned the polling thread leaves its loop and
\* closes its cursor, for every interleaving of stop() with the start of the
\* thread created in the constructor.
C36_StoppedThreadExits ==
    stop_returned ~> (mpc = "exited" /\ bot_cursor = "closed")

\* C38: on each day of the maintenance window the NASA .rnx file is tried
\* first, the BKG .rnx file only when _read_rinex got fewer than 3
\* constellations from NASA, and the .YYn file only when the .rnx file is
\* missing or holds no GPS data; _read_rinex returns a count from 0 to 3;
\* at the end of the day's iteration the .rnx and .YYn files are gone.
SourcesOf(log) == [k \in 1..Len(log) |-> log[k].source]
TriedBKG == \E k \in 1..Len(tried) : tried[k].source = "BKG .rnx"
C38_SourcesInOrderAndCleanedUp ==
    /\ tried # <<>> => tried[1].source = "NASA .rnx"
    /\ TriedBKG => n_gnss < 3
    /\ mnpc \in {"clean up", "next day"} /\ ~TriedBKG => n_gnss = 3
    /\ \A k \in 1..Len(tried) :
           /\ tried[k].returned \in 0..3
           /\ tried[k].source = ".YYn" =>
                  /\ k > 1 /\ tried[k - 1].source # ".YYn"
                  /\ \/ tried[k].rnx = <<>>
                     \/ "G" \notin tried[k].rnx[1].gnss
           /\ tried[k].source = "BKG .rnx" =>
                  \A j \in 1..Len(tried) :
                      tried[j].source = "NASA .rnx" => j < k
    /\ mnpc = "next day" => rinex_file = <<>> /\ yyn_file = <<>>
\* NASA had no file, the .YYn file gave GPS, BKG gave a file without GPS,
\* the .YYn file was tried again, and the day's files were removed
C38_Witness ==
    /\ mnpc = "next day"
    /\ SourcesOf(tried) = <<"NASA .rnx", ".YYn", "BKG .rnx", ".YYn">>
    /\ tried[1].rnx = <<>> /\ tried[1].returned = 1
    /\ tried[3].rnx # <<>>

====
